---- MODULE Spec2Model ----
(***************************************************************************)
(* RealiTLScanner: the TLS feasibility probe (ScanTLS and                  *)
(* ScanTLSWithCallbacks), the Scanner session with its cancellation        *)
(* context, and the worker pool of GUI.runScan over the address stream.    *)
(***************************************************************************)
EXTENDS Naturals, Sequences, FiniteSets, TLC

\* Largest thread count a configuration of the model asks for.
MaxThread == 2
\* Number of hosts the address stream delivers at most before it ends or stalls.
MaxHosts == 2
\* Number of processes that call into the GeoIP resolver at once.
MaxGeoProcs == 2
\* Number of start requests the GUI accepts at most.
MaxRuns == 2

\* Number of results accumulated before an export at most.
MaxSaved == 3

\* Number of calls of the log sink at most.
MaxLogs == 3

\* Number of log lines that fit into the 10000 bytes the log text is cut to.
LogLimit == 2

\* crypto/tls protocol version numbers (tls.VersionTLS13 = 0x0304).
VersionTLS13 == 772
VersionTLS12 == 771

\* http.StatusOK, and a status that is not.
StatusOK == 200
StatusNotFound == 404

\* The defaults GUI.onStart puts into an empty field, and the largest port.
DefaultPort == 443
DefaultThreads == 2
DefaultTimeout == 10
MaxPort == 65535

VARIABLES
    Config,     \* Scanner.Config: [Thread, Verbose]
    Callbacks,  \* Scanner.Callbacks: [nil, OnResult, OnLog] (which sinks are installed)
    geoReader,  \* Scanner.Geo.geoReader: "nil" or "open"
    servers,    \* the connection states the scanned servers answer a handshake with
    cancelled,  \* Scanner.ctx is done
    hostChan,   \* the address stream: [offer, sent, closed]
    run,        \* the session: "new", "geo", "made" (NewScanner), "start", "wait" (wg.Wait), "done"
    pc,         \* per worker: the statement it is at
    host,       \* per worker: the Host it holds
    conn,       \* per worker: the TCP connection of its probe
    state,      \* per worker: tls.ConnectionState after the handshake
    result,     \* per worker: the ScanResult it built
    emitted,    \* per worker: sink calls of the current probe
    ret,        \* per worker: the return statement the probe left by
    nHandshakes, \* handshakes completed in the run
    nProbes,     \* probes entered in the run
    nResults,   \* OnResult calls in the run
    out,        \* the lines ScanTLS sent to its out channel
    fs,         \* the files: [inodes, final (Country.mmdb), tmp (Country.mmdb.tmp)]
    remote,     \* the remote database: [up, status, length, body]
    handles,    \* the geoip2 readers opened so far: id -> [inode, made, closed]
    mu,         \* Geo.mu: 0 when free, else the process that holds it
    gp,         \* per process of the resolver: the call it runs and its locals
    status,     \* the OnGeoStatus calls of NewScanner, in order
    gui         \* the GUI: its fields, buttons, results, pending UI updates

\* The state of the GeoIP resolver and of its files.
geoVars == <<fs, remote, handles, mu, gp>>

\* The state of the GUI around a start request.
guiVars == <<status, gui>>

vars == <<Config, Callbacks, geoReader, servers, cancelled, hostChan, run, pc, host,
          conn, state, result, emitted, ret, nHandshakes, nProbes, nResults, out,
          fs, remote, handles, mu, gp, status, gui>>

Workers == 1..MaxThread

------------------------------------------------------------------------------
(* Data *)

\* Host as the address stream produces it: a literal IP, a domain still to
\* be resolved, or a domain that came with its address.
Hosts ==
    { [Type |-> "IP", Origin |-> "1.1.1.1", IP |-> "1.1.1.1"],
      [Type |-> "Domain", Origin |-> "example.com", IP |-> "nil"],
      [Type |-> "Domain", Origin |-> "example.com", IP |-> "1.1.1.1"] }

NoHost == [Type |-> "none", Origin |-> "", IP |-> "nil"]

Certificates ==
    { [CommonName |-> cn, Organization |-> org] :
        cn \in {"", "example.com"},
        org \in {<<>>, <<"">>, <<"LE">>, <<"A", "B">>} }

\* Every tls.ConnectionState a completed handshake can leave.
ConnectionStates ==
    { [Version |-> v, NegotiatedProtocol |-> a, PeerCertificates |-> cs] :
        v \in {VersionTLS12, VersionTLS13},
        a \in {"h2", "http/1.1", ""},
        cs \in {<<>>} \cup { <<c>> : c \in Certificates } }

NoState == [Version |-> 0, NegotiatedProtocol |-> "", PeerCertificates |-> <<>>]

\* The connection states met in a pool run: a feasible server, an infeasible
\* one, and one that presents no certificate.
PoolStates ==
    { [Version |-> VersionTLS13, NegotiatedProtocol |-> "h2",
       PeerCertificates |-> <<[CommonName |-> "example.com", Organization |-> <<"LE">>]>>],
      [Version |-> VersionTLS12, NegotiatedProtocol |-> "http/1.1",
       PeerCertificates |-> <<[CommonName |-> "example.com", Organization |-> <<"LE">>]>>],
      [Version |-> VersionTLS13, NegotiatedProtocol |-> "h2", PeerCertificates |-> <<>>] }

NoResult ==
    [IP |-> "", Origin |-> "", Domain |-> "", Issuer |-> "", GeoCode |-> "",
     Feasible |-> FALSE, TLSVersion |-> "", ALPN |-> "", built |-> FALSE]

NoEvents == [res |-> 0, info |-> 0, debug |-> 0, error |-> 0, csv |-> 0]

------------------------------------------------------------------------------
(* Pure functions *)

RECURSIVE Join(_, _)
\* strings.Join(elems, sep)
Join(elems, sep) ==
    IF Len(elems) = 0 THEN ""
    ELSE IF Len(elems) = 1 THEN elems[1]
    ELSE elems[1] \o sep \o Join(Tail(elems), sep)

\* tls.VersionName(state.Version)
VersionName(v) ==
    IF v = VersionTLS13 THEN "TLS 1.3"
    ELSE IF v = VersionTLS12 THEN "TLS 1.2"
    ELSE "unknown"

\* The classification with the issuer clause forgotten.
FeasibleNoIssuer(st, domain, issuers) ==
    /\ st.Version = VersionTLS13
    /\ st.NegotiatedProtocol = "h2"
    /\ Len(domain) > 0

\* The classification of ScanTLSWithCallbacks.
Feasible(st, domain, issuers) ==
    /\ st.Version = VersionTLS13
    /\ st.NegotiatedProtocol = "h2"
    /\ Len(domain) > 0
    /\ Len(issuers) > 0

\* The test of ScanTLS with the protocol clause forgotten.
NotFeasibleAnyALPN(st, domain, issuers) ==
    \/ st.Version # VersionTLS13
    \/ Len(domain) = 0
    \/ Len(issuers) = 0

\* The test of ScanTLS that marks a target not feasible.
NotFeasible(st, domain, issuers) ==
    \/ st.Version # VersionTLS13
    \/ st.NegotiatedProtocol # "h2"
    \/ Len(domain) = 0
    \/ Len(issuers) = 0

\* The log sink called only where a result sink is installed beside it.
HasOnLogBesideOnResult == ~Callbacks.nil /\ Callbacks.OnLog /\ Callbacks.OnResult

\* scanner.Callbacks != nil && scanner.Callbacks.OnLog != nil
HasOnLog == ~Callbacks.nil /\ Callbacks.OnLog

\* scanner.Callbacks != nil && scanner.Callbacks.OnResult != nil
HasOnResult == ~Callbacks.nil /\ Callbacks.OnResult

\* The addresses a lookup is made for: one the database has an entry for,
\* and a private one it has none for.
IPs == {"1.1.1.1", "10.0.0.1"}

\* A read error of geoReader.Country.
ReadError == [err |-> TRUE, found |-> FALSE, IsoCode |-> ""]

\* What geoReader.Country answers for an address: a read error, or no error
\* and the record of the address, which is the zero record when the database
\* has no entry for it.
Country(ip) ==
    {ReadError,
     IF ip = "1.1.1.1" THEN [err |-> FALSE, found |-> TRUE, IsoCode |-> "US"]
                       ELSE [err |-> FALSE, found |-> FALSE, IsoCode |-> ""]}

\* What GetGeo returns for an answer of Country: "N/A" on an error, else
\* country.Country.IsoCode.
IsoCodeOf(c) == IF c.err THEN "N/A" ELSE c.IsoCode

\* The answers Geo.GetGeo can give: "N/A" without a reader, else what the
\* answer of Country gives.
GetGeo(reader, ip) ==
    IF reader = "nil" THEN {"N/A"} ELSE {IsoCodeOf(c) : c \in Country(ip)}

\* One more call of the log sink at the given level.
Log(ev, level) ==
    IF level = "info" THEN [ev EXCEPT !.info = @ + 1]
    ELSE IF level = "debug" THEN [ev EXCEPT !.debug = @ + 1]
    ELSE [ev EXCEPT !.error = @ + 1]

\* The first statement a probe of host h blocks at.
Enter(h) == IF h.IP = "nil" THEN "resolve" ELSE "dial"

------------------------------------------------------------------------------
(* ScanTLSWithCallbacks *)

\* The variables no probe step touches.
ProbeFrame == UNCHANGED <<geoVars, status, Config, Callbacks, geoReader, servers, cancelled, hostChan, run>>

\* ScanTLSWithCallbacks writes no CSV line.
CallbackFrame == ProbeFrame /\ UNCHANGED <<out, gui>>

\* ScanTLS has no callbacks: it leaves the GUI alone.
CLIFrame == ProbeFrame /\ UNCHANGED gui

\* return with no deferred conn.Close(): the connection stays as it is.
ReturnLeavesOpen(w, label) ==
    /\ pc' = [pc EXCEPT ![w] = "ret"]
    /\ ret' = [ret EXCEPT ![w] = label]
    /\ conn' = conn

\* return: the deferred conn.Close() runs.
Return(w, label) ==
    /\ pc' = [pc EXCEPT ![w] = "ret"]
    /\ ret' = [ret EXCEPT ![w] = label]
    /\ conn' = [conn EXCEPT ![w] = IF @ = "open" THEN "closed" ELSE @]

\* LookupIP(host.Origin, ...) when host.IP == nil.
Resolve(w) ==
    /\ pc[w] = "resolve"
    /\ \/ /\ host' = [host EXCEPT ![w].IP = "1.1.1.1"]
          /\ pc' = [pc EXCEPT ![w] = "dial"]
          /\ UNCHANGED <<emitted, ret, conn>>
       \/ /\ emitted' = [emitted EXCEPT ![w] = IF HasOnLog THEN Log(@, "debug") ELSE @]
          /\ Return(w, "resolve")
          /\ UNCHANGED host
    /\ UNCHANGED <<state, result, nHandshakes, nProbes, nResults>>
    /\ CallbackFrame

\* The dial failure logged without looking at Config.Verbose.
DialLogsAlways(w) ==
    /\ pc[w] = "dial"
    /\ \/ /\ conn' = [conn EXCEPT ![w] = "open"]
          /\ pc' = [pc EXCEPT ![w] = "deadline"]
          /\ UNCHANGED <<emitted, ret>>
       \/ /\ emitted' = [emitted EXCEPT ![w] = IF HasOnLog THEN Log(@, "debug") ELSE @]
          /\ Return(w, "dial")
    /\ UNCHANGED <<host, state, result, nHandshakes, nProbes, nResults>>
    /\ CallbackFrame

\* net.DialTimeout
Dial(w) ==
    /\ pc[w] = "dial"
    /\ \/ /\ conn' = [conn EXCEPT ![w] = "open"]
          /\ pc' = [pc EXCEPT ![w] = "deadline"]
          /\ UNCHANGED <<emitted, ret>>
       \/ /\ emitted' = [emitted EXCEPT ![w] =
                            IF HasOnLog /\ Config.Verbose THEN Log(@, "debug") ELSE @]
          /\ Return(w, "dial")
    /\ UNCHANGED <<host, state, result, nHandshakes, nProbes, nResults>>
    /\ CallbackFrame

\* conn.SetDeadline
SetDeadline(w) ==
    /\ pc[w] = "deadline"
    /\ \/ /\ pc' = [pc EXCEPT ![w] = "handshake"]
          /\ UNCHANGED <<ret, conn>>
       \/ Return(w, "deadline")
    /\ UNCHANGED <<host, state, result, emitted, nHandshakes, nProbes, nResults>>
    /\ CallbackFrame

\* The handshake with its error ignored: the probe goes on whatever it returned.
HandshakeUnchecked(w) ==
    /\ pc[w] = "handshake"
    /\ \E s \in servers : state' = [state EXCEPT ![w] = s]
    /\ pc' = [pc EXCEPT ![w] = "certs"]
    /\ \/ nHandshakes' = nHandshakes + 1
       \/ UNCHANGED nHandshakes
    /\ UNCHANGED <<emitted, ret, conn, host, result, nResults, nProbes>>
    /\ CallbackFrame

\* tls.Client(conn, tlsCfg).Handshake()
Handshake(w) ==
    /\ pc[w] = "handshake"
    /\ \/ /\ \E s \in servers : state' = [state EXCEPT ![w] = s]
          /\ pc' = [pc EXCEPT ![w] = "certs"]
          /\ nHandshakes' = nHandshakes + 1
          /\ UNCHANGED <<emitted, ret, conn>>
       \/ /\ emitted' = [emitted EXCEPT ![w] =
                            IF HasOnLog /\ Config.Verbose THEN Log(@, "debug") ELSE @]
          /\ Return(w, "handshake")
          /\ UNCHANGED <<state, nHandshakes>>
    /\ UNCHANGED <<host, result, nResults, nProbes>>
    /\ CallbackFrame

\* The peer certificate check, the classification and the ScanResult.
Classify(w) ==
    /\ pc[w] = "certs"
    /\ IF Len(state[w].PeerCertificates) = 0
       THEN /\ emitted' = [emitted EXCEPT ![w] =
                              IF HasOnLog /\ Config.Verbose THEN Log(@, "debug") ELSE @]
            /\ Return(w, "certs")
            /\ UNCHANGED result
       ELSE LET domain == state[w].PeerCertificates[1].CommonName
                issuers == Join(state[w].PeerCertificates[1].Organization, " | ")
            IN  /\ \E geoCode \in GetGeo(geoReader, host[w].IP) :
                      result' = [result EXCEPT ![w] =
                          [IP |-> host[w].IP, Origin |-> host[w].Origin,
                           Domain |-> domain, Issuer |-> issuers, GeoCode |-> geoCode,
                           Feasible |-> Feasible(state[w], domain, issuers),
                           TLSVersion |-> VersionName(state[w].Version),
                           ALPN |-> state[w].NegotiatedProtocol, built |-> TRUE]]
                /\ pc' = [pc EXCEPT ![w] = "onresult"]
                /\ UNCHANGED <<emitted, ret, conn>>
    /\ UNCHANGED <<host, state, nHandshakes, nProbes, nResults>>
    /\ CallbackFrame

\* The OnResult sink of the GUI: the result is appended to g.results.
OnResult(g) == [g EXCEPT !.results = @ + 1]

\* The result sink called for feasible results only.
EmitResultFeasibleOnly(w) ==
    /\ pc[w] = "onresult"
    /\ IF HasOnResult /\ result[w].Feasible
       THEN /\ emitted' = [emitted EXCEPT ![w].res = @ + 1]
            /\ nResults' = nResults + 1
            /\ gui' = OnResult(gui)
       ELSE UNCHANGED <<emitted, nResults, gui>>
    /\ pc' = [pc EXCEPT ![w] = "onlog"]
    /\ UNCHANGED <<host, conn, state, result, ret, nHandshakes, nProbes, out>>
    /\ ProbeFrame

\* scanner.Callbacks.OnResult(result), when the sink is installed.
EmitResult(w) ==
    /\ pc[w] = "onresult"
    /\ IF HasOnResult
       THEN /\ emitted' = [emitted EXCEPT ![w].res = @ + 1]
            /\ nResults' = nResults + 1
            /\ gui' = OnResult(gui)
       ELSE UNCHANGED <<emitted, nResults, gui>>
    /\ pc' = [pc EXCEPT ![w] = "onlog"]
    /\ UNCHANGED <<host, conn, state, result, ret, nHandshakes, nProbes, out>>
    /\ ProbeFrame

\* The log skipped whenever verbose is off, feasible or not.
LogLevelVerboseOnly(feasible, verbose) ==
    IF ~verbose THEN ""
    ELSE IF ~feasible THEN "debug"
    ELSE "info"

\* The log written whatever verbose says.
LogLevelAlways(feasible, verbose) ==
    IF ~feasible THEN "debug" ELSE "info"

\* The log level of a classified probe, "" when it is not logged.
LogLevel(feasible, verbose) ==
    IF ~feasible /\ ~verbose THEN ""
    ELSE IF ~feasible THEN "debug"
    ELSE "info"

\* The connection log at the end of the probe.
EmitLog(w) ==
    /\ pc[w] = "onlog"
    /\ LET level == LogLevel(result[w].Feasible, Config.Verbose)
       IN  emitted' = [emitted EXCEPT ![w] =
                          IF HasOnLog /\ level # "" THEN Log(@, level) ELSE @]
    /\ Return(w, "end")
    /\ UNCHANGED <<host, state, result, nHandshakes, nProbes, nResults>>
    /\ CallbackFrame

ScanTLSWithCallbacks(w) ==
    \/ Resolve(w)
    \/ Dial(w)
    \/ SetDeadline(w)
    \/ Handshake(w)
    \/ Classify(w)
    \/ EmitResult(w)
    \/ EmitLog(w)

------------------------------------------------------------------------------
(* ScanTLS, the probe of the command line *)

\* The CSV line ScanTLS sends for a feasible target.
CSVLine(ip, origin, domain, issuers, geoCode) ==
    Join(<<ip, origin, domain, "\"" \o issuers \o "\"", geoCode>>, ",") \o "\n"

\* return to the caller: the deferred conn.Close() runs.
CLIReturn(w, label) ==
    /\ pc' = [pc EXCEPT ![w] = "cli_ret"]
    /\ ret' = [ret EXCEPT ![w] = label]
    /\ conn' = [conn EXCEPT ![w] = IF @ = "open" THEN "closed" ELSE @]

\* LookupIP(host.Origin, config.EnableIPv6) when host.IP == nil.
CLIResolve(w) ==
    /\ pc[w] = "cli_resolve"
    /\ \/ /\ host' = [host EXCEPT ![w].IP = "1.1.1.1"]
          /\ pc' = [pc EXCEPT ![w] = "cli_dial"]
          /\ UNCHANGED <<emitted, ret, conn>>
       \/ /\ emitted' = [emitted EXCEPT ![w] = Log(@, "debug")]
          /\ CLIReturn(w, "resolve")
          /\ UNCHANGED host
    /\ UNCHANGED <<state, result, nHandshakes, nProbes, nResults, out>>
    /\ CLIFrame

\* net.DialTimeout
CLIDial(w) ==
    /\ pc[w] = "cli_dial"
    /\ \/ /\ conn' = [conn EXCEPT ![w] = "open"]
          /\ pc' = [pc EXCEPT ![w] = "cli_deadline"]
          /\ UNCHANGED <<emitted, ret>>
       \/ /\ emitted' = [emitted EXCEPT ![w] = Log(@, "debug")]
          /\ CLIReturn(w, "dial")
    /\ UNCHANGED <<host, state, result, nHandshakes, nProbes, nResults, out>>
    /\ CLIFrame

\* conn.SetDeadline
CLISetDeadline(w) ==
    /\ pc[w] = "cli_deadline"
    /\ \/ /\ pc' = [pc EXCEPT ![w] = "cli_handshake"]
          /\ UNCHANGED <<emitted, ret, conn>>
       \/ /\ emitted' = [emitted EXCEPT ![w] = Log(@, "error")]
          /\ CLIReturn(w, "deadline")
    /\ UNCHANGED <<host, state, result, nHandshakes, nProbes, nResults, out>>
    /\ CLIFrame

\* tls.Client(conn, tlsCfg).Handshake()
CLIHandshake(w) ==
    /\ pc[w] = "cli_handshake"
    /\ \/ /\ \E s \in servers : state' = [state EXCEPT ![w] = s]
          /\ pc' = [pc EXCEPT ![w] = "cli_classify"]
          /\ nHandshakes' = nHandshakes + 1
          /\ UNCHANGED <<emitted, ret, conn>>
       \/ /\ emitted' = [emitted EXCEPT ![w] = Log(@, "debug")]
          /\ CLIReturn(w, "handshake")
          /\ UNCHANGED <<state, nHandshakes>>
    /\ UNCHANGED <<host, result, nResults, nProbes, out>>
    /\ CLIFrame

\* state.PeerCertificates[0] is read unguarded: with no certificate the index
\* is out of range and the goroutine panics. Otherwise the target is
\* classified and a feasible one goes on to send its line.
CLIClassify(w) ==
    /\ pc[w] = "cli_classify"
    /\ IF Len(state[w].PeerCertificates) = 0
       THEN /\ pc' = [pc EXCEPT ![w] = "panic"]
            /\ conn' = [conn EXCEPT ![w] = "closed"]
            /\ UNCHANGED result
       ELSE LET domain == state[w].PeerCertificates[1].CommonName
                issuers == Join(state[w].PeerCertificates[1].Organization, " | ")
                feasible == ~NotFeasible(state[w], domain, issuers)
            IN  /\ \E geoCode \in GetGeo(geoReader, host[w].IP) :
                      result' = [result EXCEPT ![w] =
                          [IP |-> host[w].IP, Origin |-> host[w].Origin,
                           Domain |-> domain, Issuer |-> issuers, GeoCode |-> geoCode,
                           Feasible |-> feasible,
                           TLSVersion |-> VersionName(state[w].Version),
                           ALPN |-> state[w].NegotiatedProtocol, built |-> TRUE]]
                /\ pc' = [pc EXCEPT ![w] = IF feasible THEN "cli_out" ELSE "cli_log"]
                /\ UNCHANGED conn
    /\ UNCHANGED <<host, state, emitted, ret, nHandshakes, nProbes, nResults, out>>
    /\ CLIFrame

\* out <- line
CLIOut(w) ==
    /\ pc[w] = "cli_out"
    /\ out' = Append(out, CSVLine(result[w].IP, result[w].Origin, result[w].Domain,
                                  result[w].Issuer, result[w].GeoCode))
    /\ emitted' = [emitted EXCEPT ![w].csv = @ + 1]
    /\ pc' = [pc EXCEPT ![w] = "cli_log"]
    /\ UNCHANGED <<host, conn, state, result, ret, nHandshakes, nProbes, nResults>>
    /\ CLIFrame

\* log("Connected to target", ...): slog.Info if feasible, slog.Debug if not.
CLILog(w) ==
    /\ pc[w] = "cli_log"
    /\ emitted' = [emitted EXCEPT ![w] =
                      Log(@, IF result[w].Feasible THEN "info" ELSE "debug")]
    /\ CLIReturn(w, "end")
    /\ UNCHANGED <<host, state, result, nHandshakes, nProbes, nResults, out>>
    /\ CLIFrame

ScanTLS(w) ==
    \/ CLIResolve(w)
    \/ CLIDial(w)
    \/ CLISetDeadline(w)
    \/ CLIHandshake(w)
    \/ CLIClassify(w)
    \/ CLIOut(w)
    \/ CLILog(w)

------------------------------------------------------------------------------
(* The session and the worker pool of GUI.runScan *)

\* The statements of a probe in flight.
ProbePcs == {"resolve", "dial", "deadline", "handshake", "certs", "onresult", "onlog"}

\* A worker that watches a context nobody cancels.
DoneUnobserved == FALSE

\* <-g.scanner.Context().Done() is ready
Done == cancelled

\* Scanner.Stop: cancel the context; it waits for nothing.
Stop ==
    /\ cancelled' = TRUE
    /\ UNCHANGED <<geoVars, guiVars, Config, Callbacks, geoReader, servers, hostChan, run, pc, host, conn,
                   state, result, emitted, ret, nHandshakes, nProbes, nResults, out>>

\* The producer of the address stream has its next host ready to send.
Produce ==
    /\ ~hostChan.closed
    /\ hostChan.offer = <<>>
    /\ hostChan.sent < MaxHosts
    /\ \E h \in Hosts :
          hostChan' = [hostChan EXCEPT !.offer = <<h>>, !.sent = @ + 1]
    /\ UNCHANGED <<geoVars, guiVars, Config, Callbacks, geoReader, servers, cancelled, run, pc, host, conn,
                   state, result, emitted, ret, nHandshakes, nProbes, nResults, out>>

\* The producer is exhausted and closes the channel.
CloseStream ==
    /\ ~hostChan.closed
    /\ hostChan.offer = <<>>
    /\ hostChan' = [hostChan EXCEPT !.closed = TRUE]
    /\ UNCHANGED <<geoVars, guiVars, Config, Callbacks, geoReader, servers, cancelled, run, pc, host, conn,
                   state, result, emitted, ret, nHandshakes, nProbes, nResults, out>>

\* The loop that starts the workers written with i <= Thread.
StartWorkersOneMore ==
    /\ run = "start"
    /\ gui.source # "URL"
    /\ run' = "wait"
    /\ pc' = [w \in Workers |-> IF w <= Config.Thread + 1 THEN "range" ELSE "off"]
    /\ UNCHANGED <<geoVars, guiVars, Config, Callbacks, geoReader, servers, cancelled, hostChan, host, conn,
                   state, result, emitted, ret, nHandshakes, nProbes, nResults, out>>

\* wg.Add(Thread) and the loop that starts the Thread workers.
StartWorkers ==
    /\ run = "start"
    /\ gui.source # "URL"
    /\ run' = "wait"
    /\ pc' = [w \in Workers |-> IF w <= Config.Thread THEN "range" ELSE "off"]
    /\ UNCHANGED <<geoVars, guiVars, Config, Callbacks, geoReader, servers, cancelled, hostChan, host, conn,
                   state, result, emitted, ret, nHandshakes, nProbes, nResults, out>>

\* A receive that leaves the host in the channel for the next receiver.
RangeKeepsOffer(w) ==
    /\ pc[w] = "range"
    /\ \/ /\ hostChan.offer # <<>>
          /\ host' = [host EXCEPT ![w] = hostChan.offer[1]]
          /\ pc' = [pc EXCEPT ![w] = "select"]
          /\ \/ hostChan' = [hostChan EXCEPT !.offer = <<>>]
             \/ UNCHANGED hostChan
       \/ /\ hostChan.offer = <<>>
          /\ hostChan.closed
          /\ pc' = [pc EXCEPT ![w] = "exit"]
          /\ UNCHANGED <<host, hostChan>>
    /\ UNCHANGED <<geoVars, guiVars, Config, Callbacks, geoReader, servers, cancelled, run, conn,
                   state, result, emitted, ret, nHandshakes, nProbes, nResults, out>>

\* for host := range hostChan: take the host on offer, or leave the loop
\* (and run the deferred wg.Done) when the channel is closed.
Range(w) ==
    /\ pc[w] = "range"
    /\ \/ /\ hostChan.offer # <<>>
          /\ host' = [host EXCEPT ![w] = hostChan.offer[1]]
          /\ hostChan' = [hostChan EXCEPT !.offer = <<>>]
          /\ pc' = [pc EXCEPT ![w] = "select"]
       \/ /\ hostChan.offer = <<>>
          /\ hostChan.closed
          /\ pc' = [pc EXCEPT ![w] = "exit"]
          /\ UNCHANGED <<host, hostChan>>
    /\ UNCHANGED <<geoVars, guiVars, Config, Callbacks, geoReader, servers, cancelled, run, conn,
                   state, result, emitted, ret, nHandshakes, nProbes, nResults, out>>

\* select { case <-ctx.Done(): return; default: ScanTLSWithCallbacks(host, scanner) }
Select(w) ==
    /\ pc[w] = "select"
    /\ pc' = [pc EXCEPT ![w] = IF Done THEN "exit" ELSE Enter(host[w])]
    /\ nProbes' = IF Done THEN nProbes ELSE nProbes + 1
    /\ UNCHANGED <<geoVars, guiVars, Config, Callbacks, geoReader, servers, cancelled, hostChan, run, host,
                   conn, state, result, emitted, ret, nHandshakes, nResults, out>>

\* The worker back at its range loop while its log sink is still to be called.
LoopFromSink(w) ==
    /\ pc[w] \in {"ret", "onlog"}
    /\ pc' = [pc EXCEPT ![w] = "range"]
    /\ host' = [host EXCEPT ![w] = NoHost]
    /\ conn' = [conn EXCEPT ![w] = "none"]
    /\ state' = [state EXCEPT ![w] = NoState]
    /\ result' = [result EXCEPT ![w] = NoResult]
    /\ emitted' = [emitted EXCEPT ![w] = NoEvents]
    /\ ret' = [ret EXCEPT ![w] = ""]
    /\ UNCHANGED <<geoVars, guiVars, Config, Callbacks, geoReader, servers, cancelled, hostChan, run,
                   nHandshakes, nProbes, nResults, out>>

\* The probe has returned: the next iteration of the range loop.
Loop(w) ==
    /\ pc[w] = "ret"
    /\ pc' = [pc EXCEPT ![w] = "range"]
    /\ host' = [host EXCEPT ![w] = NoHost]
    /\ conn' = [conn EXCEPT ![w] = "none"]
    /\ state' = [state EXCEPT ![w] = NoState]
    /\ result' = [result EXCEPT ![w] = NoResult]
    /\ emitted' = [emitted EXCEPT ![w] = NoEvents]
    /\ ret' = [ret EXCEPT ![w] = ""]
    /\ UNCHANGED <<geoVars, guiVars, Config, Callbacks, geoReader, servers, cancelled, hostChan, run,
                   nHandshakes, nProbes, nResults, out>>

\* runScan returning, and reporting, while workers are still at work.
WaitForNone ==
    /\ run = "wait"
    /\ run' = "done"
    /\ gui' = [gui EXCEPT !.queue = Append(@, [do |-> "completed", count |-> gui.results])]
    /\ UNCHANGED <<geoVars, status, Config, Callbacks, geoReader, servers, cancelled, hostChan, pc, host,
                   conn, state, result, emitted, ret, nHandshakes, nProbes, nResults, out>>

\* wg.Wait() returns once every worker has run wg.Done; the deferred
\* function then reads len(g.results) and hands the completion report to the
\* UI thread (fyne.Do).
Wait ==
    /\ run = "wait"
    /\ \A w \in Workers : pc[w] \in {"off", "exit"}
    /\ run' = "done"
    /\ gui' = [gui EXCEPT !.queue = Append(@, [do |-> "completed", count |-> gui.results])]
    /\ UNCHANGED <<geoVars, status, Config, Callbacks, geoReader, servers, cancelled, hostChan, pc, host,
                   conn, state, result, emitted, ret, nHandshakes, nProbes, nResults, out>>

\* One step of a worker goroutine.
Worker(w) ==
    \/ Range(w)
    \/ Select(w)
    \/ ScanTLSWithCallbacks(w)
    \/ Loop(w)

------------------------------------------------------------------------------
(* The GeoIP resolver: needsUpdate, downloadCountryDB, NewGeo, GetGeo, CheckAndUpdate *)

\* The processes that call into the resolver.
GeoProcs == 1..MaxGeoProcs

\* The database the program was last run with, in chunks of one read.
LocalImage == <<"a">>

\* The databases the remote may publish: the same one, another one of the
\* same size, and a larger one.
Databases == {LocalImage, <<"x">>, <<"b", "c">>}

\* What the remote may answer a GET with: a database, or a body that is none
\* (the page of a proxy, say).
RemoteBodies == Databases \cup {<<"h", "t">>}

\* Every file content that is whole: the local database or a whole body.
Images == {LocalImage} \cup RemoteBodies

\* What a path names: nothing, or a file and its content.
Absent == [exists |-> FALSE, content |-> <<>>]

FileAt(f, id) == IF id = 0 THEN Absent ELSE [exists |-> TRUE, content |-> f.inodes[id]]

\* Country.mmdb as the file system has it now.
FinalFile == FileAt(fs, fs.final)

\* Country.mmdb.tmp as the file system has it now.
TmpFile == FileAt(fs, fs.tmp)

\* A file is complete when it is one of the images, whole.
Complete(file) == file.exists /\ file.content \in Images

\* geoip2.Open finds the metadata at the end of a file of the right length;
\* it does not read the sections before it.
CanOpen(file) ==
    /\ file.exists
    /\ \E i \in Databases : /\ Len(file.content) = Len(i)
                            /\ file.content[Len(i)] = i[Len(i)]

\* The readers a process may open: one per call, and the one NewScanner left.
HandleOf(p) == "open" \o ToString(p)

HandleIds == {"open"} \cup {HandleOf(p) : p \in GeoProcs}

NoHandle == [inode |-> 0, made |-> FALSE, closed |-> FALSE]

\* A process that is in no call.
NoCall == [op |-> "", pc |-> "off", needUpdate |-> FALSE, err |-> "", hadLocal |-> FALSE,
           localSize |-> 0,
           dl |-> "", before |-> Absent, fd |-> 0, off |-> 0, n |-> 0,
           reader |-> "nil", used |-> "nil", usedClosed |-> FALSE, country |-> ReadError,
           code |-> "none"]

Call(op, at) == [NoCall EXCEPT !.op = op, !.pc = at]

\* The answers of the remote to one request: no answer at all, or its
\* status line and headers.
Responses ==
    {[err |-> TRUE, status |-> 0, length |-> 0]}
        \cup (IF remote.up
              THEN {[err |-> FALSE, status |-> remote.status, length |-> remote.length]}
              ELSE {})

\* os.Stat of Country.mmdb: the file is not there, or it cannot be examined,
\* or its size.
Stats ==
    IF fs.final = 0
    THEN {[notExist |-> TRUE, err |-> FALSE, size |-> 0]}
    ELSE {[notExist |-> FALSE, err |-> TRUE, size |-> 0],
          [notExist |-> FALSE, err |-> FALSE, size |-> Len(fs.inodes[fs.final])]}

\* needsUpdate comparing sizes whatever status the remote answered with.
needsUpdateAnyStatus(st, resp) ==
    IF st.notExist THEN [needUpdate |-> TRUE, err |-> FALSE]
    ELSE IF st.err THEN [needUpdate |-> FALSE, err |-> TRUE]
    ELSE IF resp.err THEN [needUpdate |-> FALSE, err |-> FALSE]
    ELSE IF resp.length <= 0 THEN [needUpdate |-> FALSE, err |-> FALSE]
    ELSE [needUpdate |-> st.size # resp.length, err |-> FALSE]

\* needsUpdate: whether the local database must be fetched again, and the
\* error of examining it.
needsUpdate(st, resp) ==
    IF st.notExist THEN [needUpdate |-> TRUE, err |-> FALSE]
    ELSE IF st.err THEN [needUpdate |-> FALSE, err |-> TRUE]
    ELSE IF resp.err THEN [needUpdate |-> FALSE, err |-> FALSE]
    ELSE IF resp.status # StatusOK THEN [needUpdate |-> FALSE, err |-> FALSE]
    ELSE IF resp.length <= 0 THEN [needUpdate |-> FALSE, err |-> FALSE]
    ELSE [needUpdate |-> st.size # resp.length, err |-> FALSE]

GeoFrame == UNCHANGED <<Config, Callbacks, servers, cancelled, hostChan, run, pc, host,
                        conn, state, result, emitted, ret, nHandshakes, nProbes, nResults,
                        out, remote, guiVars>>

\* NewGeo returning a disabled resolver when nothing is to be downloaded.
AfterNeedsUpdateSkipsOpen(c, r) ==
    IF r.err /\ c.op # "NewGeo"
    THEN [c EXCEPT !.err = "stat", !.pc = "done"]
    ELSE [c EXCEPT !.needUpdate = r.needUpdate,
                   !.pc = IF r.needUpdate THEN "get" ELSE "done"]

\* Where a call goes once needsUpdate has answered.
AfterNeedsUpdate(c, r) ==
    IF c.op = "NewGeo"
    THEN [c EXCEPT !.needUpdate = r.needUpdate,
                   !.pc = IF r.needUpdate THEN "get" ELSE "open"]
    ELSE IF r.err
    THEN [c EXCEPT !.err = "stat", !.pc = "done"]
    ELSE [c EXCEPT !.needUpdate = r.needUpdate,
                   !.pc = IF r.needUpdate THEN "get" ELSE "done"]

\* needsUpdate, first half: os.Stat of the local file.
GeoStat(p) ==
    /\ gp[p].pc = "stat"
    /\ \E st \in Stats :
          IF st.notExist \/ st.err
          THEN gp' = [gp EXCEPT ![p] = AfterNeedsUpdate([@ EXCEPT !.hadLocal = ~st.notExist],
                                                       needsUpdate(st, [err |-> TRUE]))]
          ELSE gp' = [gp EXCEPT ![p].hadLocal = TRUE, ![p].localSize = st.size,
                               ![p].pc = "head"]
    /\ UNCHANGED <<fs, handles, mu, geoReader>>
    /\ GeoFrame

\* needsUpdate, second half: the HEAD request and the comparison of sizes.
GeoHead(p) ==
    /\ gp[p].pc = "head"
    /\ \E resp \in Responses :
          gp' = [gp EXCEPT ![p] = AfterNeedsUpdate(@,
                     needsUpdate([notExist |-> FALSE, err |-> FALSE,
                                  size |-> gp[p].localSize], resp))]
    /\ UNCHANGED <<fs, handles, mu, geoReader>>
    /\ GeoFrame

\* NewGeo giving up when the download fails.
AfterDownloadGivesUp(c, err) ==
    IF err # ""
    THEN [c EXCEPT !.dl = "failed", !.err = err, !.pc = "done"]
    ELSE [c EXCEPT !.dl = "ok", !.pc = IF c.op = "NewGeo" THEN "open" ELSE "lock"]

\* Where a call goes once downloadCountryDB has returned.
AfterDownload(c, err) ==
    IF c.op = "NewGeo"
    THEN [c EXCEPT !.dl = IF err = "" THEN "ok" ELSE "failed", !.pc = "open"]
    ELSE IF err # ""
    THEN [c EXCEPT !.dl = "failed", !.err = err, !.pc = "done"]
    ELSE [c EXCEPT !.dl = "ok", !.pc = "lock"]

\* downloadCountryDB: the GET request and its status.
GeoGet(p) ==
    /\ gp[p].pc = "get"
    /\ \E resp \in Responses :
          LET c == [gp[p] EXCEPT !.dl = "running", !.before = FinalFile] IN
          IF resp.err THEN gp' = [gp EXCEPT ![p] = AfterDownload(c, "get")]
          ELSE IF resp.status # StatusOK
          THEN gp' = [gp EXCEPT ![p] = AfterDownload(c, "status")]
          ELSE gp' = [gp EXCEPT ![p] = [c EXCEPT !.pc = "create"]]
    /\ UNCHANGED <<fs, handles, mu, geoReader>>
    /\ GeoFrame

\* os.Create of the final path itself: the download written in place.
CreateInPlace(p) ==
    IF fs.final = 0
    THEN /\ fs' = [fs EXCEPT !.inodes = Append(@, <<>>), !.final = Len(fs.inodes) + 1]
         /\ gp' = [gp EXCEPT ![p].fd = Len(fs.inodes) + 1, ![p].off = 0, ![p].n = 0,
                             ![p].pc = "read"]
    ELSE /\ fs' = [fs EXCEPT !.inodes[fs.final] = <<>>]
         /\ gp' = [gp EXCEPT ![p].fd = fs.final, ![p].off = 0, ![p].n = 0,
                             ![p].pc = "read"]

\* os.Create(geoDBTempPath): the file at the fixed temporary path is made,
\* or emptied when it is there already.
CreateTemp(p) ==
    IF fs.tmp = 0
    THEN /\ fs' = [fs EXCEPT !.inodes = Append(@, <<>>), !.tmp = Len(fs.inodes) + 1]
         /\ gp' = [gp EXCEPT ![p].fd = Len(fs.inodes) + 1, ![p].off = 0, ![p].n = 0,
                             ![p].pc = "read"]
    ELSE /\ fs' = [fs EXCEPT !.inodes[fs.tmp] = <<>>]
         /\ gp' = [gp EXCEPT ![p].fd = fs.tmp, ![p].off = 0, ![p].n = 0,
                             ![p].pc = "read"]

\* downloadCountryDB: the temporary file is created, or cannot be.
GeoCreate(p) ==
    /\ gp[p].pc = "create"
    /\ \/ CreateTemp(p)
       \/ /\ gp' = [gp EXCEPT ![p] = AfterDownload(@, "create")]
          /\ UNCHANGED fs
    /\ UNCHANGED <<handles, mu, geoReader>>
    /\ GeoFrame

\* A write of one chunk through a descriptor at offset off.
WriteAt(content, off, chunk) ==
    IF off < Len(content)
    THEN [content EXCEPT ![off + 1] = chunk]
    ELSE content \o [i \in 1..(off - Len(content)) |-> "0"] \o <<chunk>>

\* os.Remove(geoDBTempPath).
RemoveTemp(f) == [f EXCEPT !.tmp = 0]

\* downloadCountryDB: one turn of the copy loop. The body yields its next
\* chunk, which is written, or the read or the write fails and the temporary
\* path is removed.
GeoRead(p) ==
    /\ gp[p].pc = "read"
    /\ LET c == gp[p] IN
       \/ /\ c.n < Len(remote.body)
          /\ fs' = [fs EXCEPT !.inodes[c.fd] = WriteAt(@, c.off, remote.body[c.n + 1])]
          /\ gp' = [gp EXCEPT ![p].n = c.n + 1, ![p].off = c.off + 1,
                              ![p].pc = IF c.n + 1 = Len(remote.body)
                                        THEN "rename" ELSE "read"]
       \/ /\ fs' = RemoveTemp(fs)
          /\ gp' = [gp EXCEPT ![p] = AfterDownload(@, "copy")]
    /\ UNCHANGED <<handles, mu, geoReader>>
    /\ GeoFrame

\* os.Rename(geoDBTempPath, geoDBPath): the final path names the temporary
\* file from now on.
Rename(f) == [f EXCEPT !.final = f.tmp, !.tmp = 0]

\* downloadCountryDB: the temporary file is closed and renamed onto the
\* final path, or the rename fails and the temporary path is removed.
GeoRename(p) ==
    /\ gp[p].pc = "rename"
    /\ \/ /\ fs.tmp # 0
          /\ fs' = Rename(fs)
          /\ gp' = [gp EXCEPT ![p] = AfterDownload(@, "")]
       \/ /\ fs' = RemoveTemp(fs)
          /\ gp' = [gp EXCEPT ![p] = AfterDownload(@, "rename")]
    /\ UNCHANGED <<handles, mu, geoReader>>
    /\ GeoFrame

downloadCountryDB(p) == GeoGet(p) \/ GeoCreate(p) \/ GeoRead(p) \/ GeoRename(p)

\* NewGeo, last step: geoip2.Open of the final path; the resolver holds the
\* reader, or none when the file cannot be opened.
GeoOpen(p) ==
    /\ gp[p].pc = "open"
    /\ IF CanOpen(FinalFile)
       THEN /\ handles' = [handles EXCEPT ![HandleOf(p)] =
                              [inode |-> fs.final, made |-> TRUE, closed |-> FALSE]]
            /\ gp' = [gp EXCEPT ![p].reader = HandleOf(p), ![p].pc = "done"]
       ELSE /\ gp' = [gp EXCEPT ![p].err = "open", ![p].pc = "done"]
            /\ UNCHANGED handles
    /\ UNCHANGED <<fs, mu, geoReader>>
    /\ GeoFrame

NewGeo(p) ==
    /\ gp[p].op = "NewGeo"
    /\ GeoStat(p) \/ GeoHead(p) \/ downloadCountryDB(p) \/ GeoOpen(p)

\* o.mu.Lock().
GeoLock(p) ==
    /\ gp[p].pc = "lock"
    /\ mu = 0
    /\ mu' = p
    /\ gp' = [gp EXCEPT ![p].pc = IF gp[p].op = "GetGeo" THEN "country" ELSE "close"]
    /\ UNCHANGED <<fs, handles, geoReader>>
    /\ GeoFrame

\* CheckAndUpdate under the lock: the reader in use is closed.
GeoClose(p) ==
    /\ gp[p].pc = "close"
    /\ handles' = IF geoReader = "nil" THEN handles
                  ELSE [handles EXCEPT ![geoReader].closed = TRUE]
    /\ gp' = [gp EXCEPT ![p].pc = "reopen"]
    /\ UNCHANGED <<fs, mu, geoReader>>
    /\ GeoFrame

\* CheckAndUpdate under the lock: the file is opened again and its reader
\* takes the place of the old one; the lock is released on return.
GeoReopen(p) ==
    /\ gp[p].pc = "reopen"
    /\ IF CanOpen(FinalFile)
       THEN /\ handles' = [handles EXCEPT ![HandleOf(p)] =
                              [inode |-> fs.final, made |-> TRUE, closed |-> FALSE]]
            /\ geoReader' = HandleOf(p)
            /\ gp' = [gp EXCEPT ![p].reader = HandleOf(p), ![p].pc = "done"]
       ELSE /\ UNCHANGED geoReader
            /\ gp' = [gp EXCEPT ![p].err = "open", ![p].pc = "done"]
            /\ UNCHANGED handles
    /\ mu' = 0
    /\ UNCHANGED fs
    /\ GeoFrame

CheckAndUpdate(p) ==
    /\ gp[p].op = "CheckAndUpdate"
    /\ \/ GeoStat(p) \/ GeoHead(p) \/ downloadCountryDB(p)
       \/ GeoLock(p) \/ GeoClose(p) \/ GeoReopen(p)

\* GetGeo, first statement: o.geoReader is compared with nil before the lock
\* is taken.
GeoCheck(p) ==
    /\ gp[p].pc = "check"
    /\ gp' = IF geoReader = "nil"
             THEN [gp EXCEPT ![p].code = "N/A", ![p].pc = "done"]
             ELSE [gp EXCEPT ![p].pc = "lock"]
    /\ UNCHANGED <<fs, handles, mu, geoReader>>
    /\ GeoFrame

\* GetGeo under the lock: the lookup in the reader o.geoReader names now.
\* A closed reader answers with an error.
GeoCountry(p) ==
    /\ gp[p].pc = "country"
    /\ LET closed == geoReader = "nil" \/ handles[geoReader].closed IN
       \E ip \in IPs : \E c \in (IF closed THEN {ReadError} ELSE Country(ip)) :
          gp' = [gp EXCEPT ![p].code = IsoCodeOf(c), ![p].country = c,
                           ![p].used = geoReader, ![p].usedClosed = closed,
                           ![p].pc = "done"]
    /\ mu' = 0
    /\ UNCHANGED <<fs, handles, geoReader>>
    /\ GeoFrame

GetGeoCall(p) ==
    /\ gp[p].op = "GetGeo"
    /\ GeoCheck(p) \/ GeoLock(p) \/ GeoCountry(p)

------------------------------------------------------------------------------
(* GUI.onStart: the validation of a start request *)

\* The decimal digits, in order of their value.
Digits == <<"0", "1", "2", "3", "4", "5", "6", "7", "8", "9">>

IsDigit(c) == \E i \in 1..Len(Digits) : Digits[i] = c

DigitValue(c) == (CHOOSE i \in 1..Len(Digits) : Digits[i] = c) - 1

\* The characters strings.TrimSpace and sanitizeInput take for white space.
IsSpace(c) == c \in {" ", "\t", "\n", "\r"}

\* strings.TrimSpace: the text without its leading and trailing white space.
RECURSIVE TrimSpace(_)
TrimSpace(t) ==
    IF t = <<>> THEN t
    ELSE IF IsSpace(t[1]) THEN TrimSpace(Tail(t))
    ELSE IF IsSpace(t[Len(t)]) THEN TrimSpace(SubSeq(t, 1, Len(t) - 1))
    ELSE t

NotSpace(c) == ~IsSpace(c)

\* sanitizeInput: trimmed, then every white space character removed.
sanitizeInput(t) == SelectSeq(TrimSpace(t), NotSpace)

\* sanitizeNumericInput: trimmed, then only the digits kept.
sanitizeNumericInput(t) == SelectSeq(TrimSpace(t), IsDigit)

\* A text strconv.Atoi takes for a decimal number without a sign.
IsNumber(t) == t # <<>> /\ \A i \in 1..Len(t) : IsDigit(t[i])

\* strconv.Atoi of a text of digits.
RECURSIVE Atoi(_)
Atoi(t) ==
    IF t = <<>> THEN 0
    ELSE 10 * Atoi(SubSeq(t, 1, Len(t) - 1)) + DigitValue(t[Len(t)])

\* One numeric field as onStart reads it: the sanitized text, the default
\* for an empty one, the number, and whether the number is out of range.
Field(text, default, max) ==
    LET str == sanitizeNumericInput(text)
        empty == str = <<>>
        n == IF empty THEN default ELSE IF IsNumber(str) THEN Atoi(str) ELSE 0
    IN  [defaulted |-> empty,
         value |-> n,
         invalid |-> (~empty /\ ~IsNumber(str)) \/ n <= 0 \/ (max > 0 /\ n > max)]

\* What a user may have in the source field.
InputTexts == {<<>>, <<" ">>, <<"1", ".", "1", ".", "1", ".", "1">>, <<"a", " ", "b">>}

\* What a user may have in a numeric field: nothing, blanks, numbers in and
\* out of range, a negative number, a number with a letter, and words.
NumberTexts ==
    {<<>>, <<" ">>, <<"0">>, <<"1">>, <<" ", "8", "0">>, <<"6", "5", "5", "3", "5">>,
     <<"6", "5", "5", "3", "6">>, <<"-", "1">>, <<"8", "o">>, <<"a", "b">>}

\* A worker that is not inside the log sink.
NoLogCall == [at |-> "off", msg |-> 0, currentLog |-> <<>>]

\* The GUI with nothing typed and no start request made.
NoGUI == [phase |-> "idle", inputText |-> <<>>, portText |-> <<>>, threadText |-> <<>>,
          timeoutText |-> <<>>, request |-> <<>>, error |-> "",
          config |-> [Port |-> 0, Thread |-> 0, Timeout |-> 0],
          isScanning |-> FALSE, startBtn |-> TRUE, stopBtn |-> FALSE, saveBtn |-> FALSE,
          scanner |-> FALSE, results |-> 0, queue |-> <<>>, reports |-> <<>>,
          runs |-> 0, stopped |-> FALSE, source |-> "IP/CIDR/Domain",
          list |-> <<>>, written |-> <<>>, made |-> 0, stops |-> {},
          logText |-> <<>>, nLogs |-> 0, logCall |-> [w \in Workers |-> NoLogCall]]

GuiFrame == UNCHANGED <<Config, Callbacks, geoReader, servers, cancelled, hostChan, run,
                        pc, host, conn, state, result, emitted, ret, nHandshakes, nProbes,
                        nResults, out, geoVars, status>>

\* The user rewrites one of the fields while no start request is handled.
Edit ==
    /\ gui.phase = "idle"
    /\ \/ \E t \in InputTexts : gui' = [gui EXCEPT !.inputText = t]
       \/ \E t \in NumberTexts : \/ gui' = [gui EXCEPT !.portText = t]
                                 \/ gui' = [gui EXCEPT !.threadText = t]
                                 \/ gui' = [gui EXCEPT !.timeoutText = t]
    /\ GuiFrame

\* GUI.onStart up to the construction of the scanner: the source must not be
\* empty, then port, thread count and timeout are sanitized, defaulted when
\* empty, converted and checked in this order; the first failure shows its
\* error and returns. The fields are rewritten as the code rewrites them.
\* An accepted request clears g.results and disables the Start button; the
\* scanner is then made by a goroutine of its own.
onStart ==
    /\ gui.phase = "idle"
    /\ gui.startBtn
    /\ ~gui.isScanning
    /\ gui.runs < MaxRuns
    /\ LET source == sanitizeInput(gui.inputText)
           port == Field(gui.portText, DefaultPort, MaxPort)
           threads == Field(gui.threadText, DefaultThreads, 0)
           timeout == Field(gui.timeoutText, DefaultTimeout, 0)
           asked == [gui EXCEPT !.request = <<gui.inputText, gui.portText,
                                             gui.threadText, gui.timeoutText>>]
           Reject(g, msg) == [g EXCEPT !.phase = "rejected", !.error = msg]
           Default(text, f, default) == IF f.defaulted THEN default ELSE text
       IN  IF source = <<>>
           THEN gui' = Reject(asked, "Please specify scan source")
           ELSE LET g1 == [asked EXCEPT !.inputText = source,
                               !.portText = Default(@, port, <<"4", "4", "3">>)] IN
                IF port.invalid
                THEN gui' = Reject(g1, "Invalid port")
                ELSE LET g2 == [g1 EXCEPT !.threadText = Default(@, threads, <<"2">>)] IN
                     IF threads.invalid
                     THEN gui' = Reject(g2, "Invalid thread count")
                     ELSE LET g3 == [g2 EXCEPT !.timeoutText =
                                                  Default(@, timeout, <<"1", "0">>)] IN
                          IF timeout.invalid
                          THEN gui' = Reject(g3, "Invalid timeout")
                          ELSE gui' = [g3 EXCEPT !.phase = "starting",
                                          !.config = [Port |-> port.value,
                                                      Thread |-> threads.value,
                                                      Timeout |-> timeout.value],
                                          !.results = 0, !.startBtn = FALSE,
                                          !.runs = @ + 1]
    /\ GuiFrame

\* The error dialog is dismissed: the GUI takes the next request.
Dismiss ==
    /\ gui.phase = "rejected"
    /\ gui' = [gui EXCEPT !.phase = "idle", !.error = "", !.request = <<>>]
    /\ GuiFrame

------------------------------------------------------------------------------
(* GUI.onSave: the export of the accumulated results *)

\* The results a run can deliver: a feasible server, one with two issuer
\* organizations and one that is infeasible, with and without a country.
ScanResults ==
    { [IP |-> "1.1.1.1", Origin |-> "example.com",
       Domain |-> s.PeerCertificates[1].CommonName,
       Issuer |-> Join(s.PeerCertificates[1].Organization, " | "),
       GeoCode |-> geoCode,
       Feasible |-> Feasible(s, s.PeerCertificates[1].CommonName,
                             Join(s.PeerCertificates[1].Organization, " | ")),
       TLSVersion |-> VersionName(s.Version), ALPN |-> s.NegotiatedProtocol,
       built |-> TRUE] :
        s \in {t \in PoolStates : Len(t.PeerCertificates) > 0}
                \cup {[Version |-> VersionTLS13, NegotiatedProtocol |-> "h2",
                       PeerCertificates |->
                          <<[CommonName |-> "example.com", Organization |-> <<"A", "B">>]>>]},
        geoCode \in {"US", "N/A"} }

\* The first write of an export.
Header == "IP,ORIGIN,CERT_DOMAIN,CERT_ISSUER,GEO_CODE\n"

\* fmt.Sprintf("%s,%s,%s,\"%s\",%s\n", IP, Origin, Domain, Issuer, GeoCode)
Row(r) ==
    r.IP \o "," \o r.Origin \o "," \o r.Domain \o ",\"" \o r.Issuer \o "\"," \o r.GeoCode \o "\n"

\* The export writing a row for every result, feasible or not.
RowsOfAll(results) == [i \in 1..Len(results) |-> Row(results[i])]

\* for _, result := range g.results { if result.Feasible { write the row } }
Rows(results) ==
    LET kept == SelectSeq(results, LAMBDA r : r.Feasible)
    IN  [i \in 1..Len(kept) |-> Row(kept[i])]

\* The OnResult sink with the result it is given: g.results grows by it.
\* (The specifications of a run keep the length of g.results only.)
Accumulate ==
    /\ Len(gui.list) < MaxSaved
    /\ \E r \in ScanResults : gui' = [OnResult(gui) EXCEPT !.list = Append(@, r)]
    /\ GuiFrame

\* GUI.onSave with a file chosen in the dialog: nothing is written when
\* g.results is empty, else the header and the rows.
onSave ==
    /\ gui.saveBtn
    /\ Len(gui.list) > 0
    /\ gui' = [gui EXCEPT !.written = <<Header>> \o Rows(gui.list)]
    /\ GuiFrame

------------------------------------------------------------------------------
(* The OnLog sink of the GUI *)

\* newLog[:10000] when len(newLog) > 10000, a log line taken as one unit.
Truncate(text) == IF Len(text) > LogLimit THEN SubSeq(text, 1, LogLimit) ELSE text

\* OnLog, first half, on the goroutine of the worker that calls the sink:
\* g.logText.Get() and the new text, the new line before the text read.
OnLogGet(w) ==
    /\ gui.logCall[w].at = "off"
    /\ gui.nLogs < MaxLogs
    /\ gui' = [gui EXCEPT !.nLogs = @ + 1,
                          !.logCall[w] = [at |-> "built", msg |-> gui.nLogs + 1,
                                          currentLog |-> gui.logText]]
    /\ GuiFrame

\* OnLog, second half: fyne.Do hands g.logText.Set(newLog) to the UI thread
\* and the sink returns.
OnLogDo(w) ==
    /\ gui.logCall[w].at = "built"
    /\ LET newLog == Truncate(<<gui.logCall[w].msg>> \o gui.logCall[w].currentLog)
       IN  gui' = [gui EXCEPT !.queue = Append(@, [do |-> "log", count |-> 0, text |-> newLog]),
                              !.logCall[w] = NoLogCall]
    /\ GuiFrame

------------------------------------------------------------------------------
(* NewScanner: the start of a session *)

\* callbacks != nil && callbacks.OnGeoStatus != nil
HasOnGeoStatus == ~Callbacks.nil /\ Callbacks.OnGeoStatus

\* One more call of the status sink, when it is installed.
OnGeoStatus(msg) == IF HasOnGeoStatus THEN Append(status, msg) ELSE status

\* NewScanner reporting readiness whatever NewGeo returned.
FinalStatusAlwaysReady(reader) == "GeoIP ready"

\* The status NewScanner reports once NewGeo has returned.
FinalStatus(reader) == IF reader # "nil" THEN "GeoIP ready" ELSE "GeoIP unavailable"

\* NewScanner handing out the context of the scanner before it.
WithCancelReused == cancelled

\* context.WithCancel(context.Background()): a context that is not done.
WithCancel == FALSE

SessionFrame == UNCHANGED <<Config, Callbacks, servers, hostChan, pc, host, conn,
                            state, result, emitted, ret, nHandshakes, nProbes, nResults, out,
                            fs, remote, handles, mu, gui>>

\* NewScanner up to its call of NewGeo: the context is made and the status
\* sink hears that the database is being checked.
NewScannerBegin ==
    /\ run = "new"
    /\ status' = OnGeoStatus("Checking GeoIP database...")
    /\ gp' = [gp EXCEPT ![1] = Call("NewGeo", "stat")]
    /\ run' = "geo"
    /\ UNCHANGED <<geoReader, cancelled>>
    /\ SessionFrame

\* NewScanner after NewGeo has returned: the status sink hears the outcome
\* and the Scanner is returned with the resolver and its own context, which
\* g.scanner names from now on.
NewScannerEnd ==
    /\ run = "geo"
    /\ gp[1].pc = "done"
    /\ status' = OnGeoStatus(FinalStatus(gp[1].reader))
    /\ geoReader' = gp[1].reader
    /\ cancelled' = WithCancel
    /\ run' = "made"
    /\ UNCHANGED gp
    /\ SessionFrame

NewScanner == NewScannerBegin \/ (run = "geo" /\ NewGeo(1)) \/ NewScannerEnd

\* The goroutine of onStart once NewScanner has returned: the UI thread is
\* asked to show the scan as started, and runScan is started with the
\* address stream of its source.
GoRunScan ==
    /\ run = "made"
    /\ run' = "start"
    /\ gui' = [gui EXCEPT !.scanner = TRUE, !.stopped = FALSE, !.made = @ + 1,
                          !.queue = Append(@, [do |-> "started", count |-> 0])]
    /\ hostChan' = [offer |-> <<>>, sent |-> 0, closed |-> FALSE]
    /\ UNCHANGED <<Config, Callbacks, geoReader, servers, cancelled, pc, host, conn, state,
                   result, emitted, ret, nHandshakes, nProbes, nResults, out, geoVars, status>>

------------------------------------------------------------------------------
(* The GUI around its runs: onStart's goroutine, runScan's ends, onStop, the UI thread *)

\* The goroutine onStart starts for an accepted request begins to run: it
\* calls NewScanner with the configuration onStart made.
GoInit ==
    /\ gui.phase = "starting"
    /\ run \in {"gui", "done"}
    /\ gui' = [gui EXCEPT !.phase = "running"]
    /\ run' = "new"
    /\ Config' = [Config EXCEPT !.Thread = gui.config.Thread]
    /\ pc' = [w \in Workers |-> "off"]
    /\ status' = <<>>
    /\ nHandshakes' = 0
    /\ nProbes' = 0
    /\ nResults' = 0
    /\ UNCHANGED <<Callbacks, geoReader, servers, cancelled, hostChan, host, conn, state,
                   result, emitted, ret, out, geoVars>>

\* runScan with the source "URL": it logs that this is not implemented and
\* returns; the deferred function reports completion.
RunScanNoStream ==
    /\ run = "start"
    /\ gui.source = "URL"
    /\ run' = "done"
    /\ gui' = [gui EXCEPT !.queue = Append(@, [do |-> "completed", count |-> gui.results])]
    /\ UNCHANGED <<Config, Callbacks, geoReader, servers, cancelled, hostChan, pc, host, conn,
                   state, result, emitted, ret, nHandshakes, nProbes, nResults, out, geoVars, status>>

\* GUI.onStop, by the Stop button: the scanner g.scanner names is stopped.
onStop ==
    /\ gui.stopBtn
    /\ IF gui.scanner
       THEN /\ cancelled' = TRUE
            /\ gui' = [gui EXCEPT !.stopped = TRUE, !.stops = @ \cup {gui.made}]
       ELSE UNCHANGED <<cancelled, gui>>
    /\ UNCHANGED <<Config, Callbacks, geoReader, servers, hostChan, run, pc, host, conn,
                   state, result, emitted, ret, nHandshakes, nProbes, nResults, out, geoVars, status>>

\* The update of a started scan giving the Start button back at once.
ApplyEnablesStart(g, update) ==
    IF update.do = "log" THEN [g EXCEPT !.logText = update.text]
    ELSE IF update.do = "started"
    THEN [g EXCEPT !.isScanning = FALSE, !.startBtn = TRUE, !.stopBtn = TRUE,
                   !.saveBtn = FALSE, !.phase = "idle"]
    ELSE [g EXCEPT !.isScanning = FALSE, !.startBtn = TRUE, !.stopBtn = FALSE,
                   !.saveBtn = TRUE, !.reports = Append(@, update.count),
                   !.phase = "idle"]

\* The update of the GUI that a goroutine handed over with fyne.Do.
Apply(g, update) ==
    IF update.do = "log" THEN [g EXCEPT !.logText = update.text]
    ELSE IF update.do = "started"
    THEN [g EXCEPT !.isScanning = TRUE, !.stopBtn = TRUE, !.saveBtn = FALSE]
    ELSE [g EXCEPT !.isScanning = FALSE, !.startBtn = TRUE, !.stopBtn = FALSE,
                   !.saveBtn = TRUE, !.reports = Append(@, update.count),
                   !.phase = "idle"]

\* The UI thread runs the oldest update handed to it.
ApplyUI ==
    /\ gui.queue # <<>>
    /\ gui' = Apply([gui EXCEPT !.queue = Tail(@)], Head(gui.queue))
    /\ GuiFrame

------------------------------------------------------------------------------
(* Specifications *)

\* The callback set GUI.onStart installs.
GUICallbacks == [nil |-> FALSE, OnResult |-> TRUE, OnLog |-> TRUE, OnGeoStatus |-> TRUE]

\* Every callback set a Scanner can be given, nil included.
CallbackSets ==
    {[nil |-> TRUE, OnResult |-> FALSE, OnLog |-> FALSE, OnGeoStatus |-> FALSE]}
        \cup [nil : {FALSE}, OnResult : BOOLEAN, OnLog : BOOLEAN, OnGeoStatus : BOOLEAN]

Idle ==
    /\ cancelled = FALSE
    /\ hostChan = [offer |-> <<>>, sent |-> 0, closed |-> FALSE]
    /\ conn = [w \in Workers |-> "none"]
    /\ state = [w \in Workers |-> NoState]
    /\ result = [w \in Workers |-> NoResult]
    /\ emitted = [w \in Workers |-> NoEvents]
    /\ ret = [w \in Workers |-> ""]
    /\ nHandshakes = 0
    /\ nProbes = 0
    /\ nResults = 0
    /\ out = <<>>

\* The resolver at rest, as a session that does not refresh it sees it.
GeoIdle ==
    /\ fs = [inodes |-> <<LocalImage>>, final |-> 1, tmp |-> 0]
    /\ remote = [up |-> FALSE, status |-> StatusOK, length |-> 0, body |-> LocalImage]
    /\ handles = [h \in HandleIds |->
                    IF h = geoReader
                    THEN [inode |-> 1, made |-> TRUE, closed |-> FALSE] ELSE NoHandle]
    /\ mu = 0
    /\ gp = [p \in GeoProcs |-> NoCall]

\* The GUI at rest.
GuiIdle ==
    /\ status = <<>>
    /\ gui = NoGUI

\* A GUI session right after NewScanner, before runScan, its resolver open
\* (a lookup on it answers a country code or "N/A").
Init ==
    /\ Config \in [Thread : 1..MaxThread, Verbose : BOOLEAN]
    /\ Callbacks = GUICallbacks
    /\ geoReader = "open"
    /\ servers = PoolStates
    /\ run = "start"
    /\ pc = [w \in Workers |-> "off"]
    /\ host = [w \in Workers |-> NoHost]
    /\ Idle
    /\ GeoIdle
    /\ GuiIdle

Next ==
    \/ StartWorkers
    \/ Stop
    \/ Produce
    \/ CloseStream
    \/ \E w \in Workers : Worker(w)
    \/ Wait

Spec == Init /\ [][Next]_vars

\* The goroutines are scheduled fairly and every network operation ends by
\* its timeout; the address stream and the user owe nothing.
Fairness ==
    /\ WF_vars(StartWorkers)
    /\ WF_vars(Wait)
    /\ \A w \in Workers : WF_vars(Worker(w))

FairSpec == Spec /\ Fairness

\* One call of a probe entry point on any host, with any callback set.
InitProbe ==
    /\ Config \in [Thread : {1}, Verbose : BOOLEAN]
    /\ Callbacks \in CallbackSets
    /\ geoReader \in {"nil", "open"}
    /\ servers = ConnectionStates
    /\ run = "call"
    /\ \E h \in Hosts, entry \in {"", "cli_"} :
          /\ host = [w \in Workers |-> IF w = 1 THEN h ELSE NoHost]
          /\ pc = [w \in Workers |-> IF w = 1 THEN entry \o Enter(h) ELSE "off"]
    /\ Idle
    /\ GeoIdle
    /\ GuiIdle

NextProbe ==
    \/ ScanTLSWithCallbacks(1)
    \/ ScanTLS(1)

SpecProbe == InitProbe /\ [][NextProbe]_vars

\* Both entry points called on one host: ScanTLSWithCallbacks with the sinks
\* of the GUI installed, ScanTLS beside it.
InitBoth ==
    /\ Config \in [Thread : {1}, Verbose : BOOLEAN]
    /\ Callbacks = GUICallbacks
    /\ geoReader \in {"nil", "open"}
    /\ servers = ConnectionStates
    /\ run = "call"
    /\ \E h \in Hosts :
          /\ host = [w \in Workers |-> IF w \in {1, 2} THEN h ELSE NoHost]
          /\ pc = [w \in Workers |-> IF w = 1 THEN Enter(h)
                                     ELSE IF w = 2 THEN "cli_" \o Enter(h) ELSE "off"]
    /\ Idle
    /\ GeoIdle
    /\ GuiIdle

NextBoth ==
    \/ ScanTLSWithCallbacks(1)
    \/ ScanTLS(2)

SpecBoth == InitBoth /\ [][NextBoth]_vars

\* A run nobody stops: the stream sends its hosts and closes, the workers
\* probe, runScan waits for them.
InitOnce ==
    /\ Config \in [Thread : 1..MaxThread, Verbose : {FALSE}]
    /\ Callbacks = GUICallbacks
    /\ geoReader = "open"
    /\ servers = {s \in PoolStates : s.Version = VersionTLS13}
    /\ run = "start"
    /\ pc = [w \in Workers |-> "off"]
    /\ host = [w \in Workers |-> NoHost]
    /\ Idle
    /\ GeoIdle
    /\ GuiIdle

NextOnce ==
    \/ StartWorkers
    \/ Produce
    \/ CloseStream
    \/ \E w \in Workers : Worker(w)
    \/ Wait

\* The goroutines are scheduled fairly, every network operation ends by its
\* timeout, and the finite stream sends what it has and closes.
FairOnce ==
    /\ WF_vars(StartWorkers)
    /\ WF_vars(Wait)
    /\ WF_vars(Produce)
    /\ WF_vars(CloseStream)
    /\ \A w \in Workers : WF_vars(Worker(w))

SpecOnce == InitOnce /\ [][NextOnce]_vars /\ FairOnce

\* The remotes a run may meet: unreachable or reachable, answering 200 or
\* not, announcing its size or not, with any of the bodies.
Remotes ==
    {[up |-> u, status |-> s, length |-> l, body |-> b] :
        u \in BOOLEAN, s \in {StatusOK, StatusNotFound}, l \in {0, 1, 2},
        b \in RemoteBodies}

\* The local files a run may start from: no database, or the last one.
LocalFiles ==
    {[inodes |-> <<>>, final |-> 0, tmp |-> 0],
     [inodes |-> <<LocalImage>>, final |-> 1, tmp |-> 0]}

\* One call of NewGeo, alone, from any local file against any remote.
InitOpen ==
    /\ Config = [Thread |-> 1, Verbose |-> FALSE]
    /\ Callbacks = GUICallbacks
    /\ geoReader = "nil"
    /\ servers = PoolStates
    /\ run = "geo"
    /\ pc = [w \in Workers |-> "off"]
    /\ host = [w \in Workers |-> NoHost]
    /\ Idle
    /\ fs \in LocalFiles
    /\ remote \in {r \in Remotes : r.length \in {0, Len(r.body)}}
    /\ handles = [h \in HandleIds |-> NoHandle]
    /\ mu = 0
    /\ gp = [p \in GeoProcs |-> IF p = 1 THEN Call("NewGeo", "stat") ELSE NoCall]
    /\ GuiIdle

NextOpen == NewGeo(1)

SpecOpen == InitOpen /\ [][NextOpen]_vars

\* The calls a process may make on the resolver, and where each starts.
GeoCalls == {Call("NewGeo", "stat"), Call("CheckAndUpdate", "stat"), Call("GetGeo", "check")}

\* One resolver shared by concurrent calls: refreshes, lookups, and opens of
\* further resolvers over the same files.
InitGeo ==
    /\ Config = [Thread |-> 1, Verbose |-> FALSE]
    /\ Callbacks = GUICallbacks
    /\ servers = PoolStates
    /\ run = "geo"
    /\ pc = [w \in Workers |-> "off"]
    /\ host = [w \in Workers |-> NoHost]
    /\ Idle
    /\ fs \in LocalFiles
    /\ geoReader \in IF fs.final = 0 THEN {"nil"} ELSE {"nil", "open"}
    /\ remote \in {r \in Remotes : r.up /\ r.status = StatusOK /\ r.length = Len(r.body)}
    /\ handles = [h \in HandleIds |->
                    IF h = geoReader
                    THEN [inode |-> 1, made |-> TRUE, closed |-> FALSE] ELSE NoHandle]
    /\ mu = 0
    /\ gp \in [GeoProcs -> GeoCalls]
    /\ GuiIdle

NextGeo == \E p \in GeoProcs : NewGeo(p) \/ CheckAndUpdate(p) \/ GetGeoCall(p)

SpecGeo == InitGeo /\ [][NextGeo]_vars

\* A lookup made once the refresh has returned.
LaterLookup ==
    /\ gp[1].pc = "done"
    /\ gp[2] = NoCall
    /\ gp' = [gp EXCEPT ![2] = Call("GetGeo", "check")]
    /\ UNCHANGED <<fs, handles, mu, geoReader>>
    /\ GeoFrame

\* One refresh of a resolver, alone, from any local file against any remote,
\* and a lookup after it.
InitRefresh ==
    /\ Config = [Thread |-> 1, Verbose |-> FALSE]
    /\ Callbacks = GUICallbacks
    /\ servers = PoolStates
    /\ run = "geo"
    /\ pc = [w \in Workers |-> "off"]
    /\ host = [w \in Workers |-> NoHost]
    /\ Idle
    /\ fs \in LocalFiles
    /\ geoReader \in IF fs.final = 0 THEN {"nil"} ELSE {"nil", "open"}
    /\ remote \in {r \in Remotes : r.length \in {0, Len(r.body)}}
    /\ handles = [h \in HandleIds |->
                    IF h = geoReader
                    THEN [inode |-> 1, made |-> TRUE, closed |-> FALSE] ELSE NoHandle]
    /\ mu = 0
    /\ gp = [p \in GeoProcs |-> IF p = 1 THEN Call("CheckAndUpdate", "stat") ELSE NoCall]
    /\ GuiIdle

NextRefresh ==
    \/ CheckAndUpdate(1)
    \/ LaterLookup
    \/ GetGeoCall(2)

SpecRefresh == InitRefresh /\ [][NextRefresh]_vars

\* The GUI alone: the user edits the fields and asks for a start.
InitStart ==
    /\ Config = [Thread |-> 1, Verbose |-> FALSE]
    /\ Callbacks = GUICallbacks
    /\ geoReader = "nil"
    /\ servers = PoolStates
    /\ run = "gui"
    /\ pc = [w \in Workers |-> "off"]
    /\ host = [w \in Workers |-> NoHost]
    /\ Idle
    /\ GeoIdle
    /\ GuiIdle

NextStart == Edit \/ onStart \/ Dismiss

SpecStart == InitStart /\ [][NextStart]_vars

\* The remotes a session is started against: unreachable, answering 404,
\* and publishing a larger database.
SessionRemotes ==
    {r \in Remotes : /\ r.body = <<"b", "c">>
                     /\ r.length = Len(r.body)
                     /\ ~r.up => r.status = StatusOK}

\* A session from the call of NewScanner on: the resolver is opened, then
\* runScan runs the workers.
InitSession ==
    /\ Config = [Thread |-> 1, Verbose |-> FALSE]
    /\ Callbacks = GUICallbacks
    /\ geoReader = "nil"
    /\ servers = PoolStates
    /\ run = "new"
    /\ pc = [w \in Workers |-> "off"]
    /\ host = [w \in Workers |-> NoHost]
    /\ Idle
    /\ fs \in LocalFiles
    /\ remote \in SessionRemotes
    /\ handles = [h \in HandleIds |-> NoHandle]
    /\ mu = 0
    /\ gp = [p \in GeoProcs |-> NoCall]
    /\ GuiIdle

NextSession ==
    \/ NewScanner
    \/ GoRunScan
    \/ (run \notin {"new", "geo", "made"} /\ Next)

SpecSession == InitSession /\ [][NextSession]_vars

\* The log sink of the GUI called by the workers of a run, and the UI thread.
InitLog ==
    /\ Config = [Thread |-> MaxThread, Verbose |-> TRUE]
    /\ Callbacks = GUICallbacks
    /\ geoReader = "open"
    /\ servers = PoolStates
    /\ run = "wait"
    /\ pc = [w \in Workers |-> "onlog"]
    /\ host = [w \in Workers |-> [Type |-> "IP", Origin |-> "1.1.1.1", IP |-> "1.1.1.1"]]
    /\ Idle
    /\ GeoIdle
    /\ GuiIdle

NextLog ==
    \/ \E w \in Workers : OnLogGet(w)
    \/ \E w \in Workers : OnLogDo(w)
    \/ ApplyUI

SpecLog == InitLog /\ [][NextLog]_vars

\* The export and the output of the command line: results accumulate and
\* are saved, and ScanTLS probes one host.
InitSave ==
    /\ Config = [Thread |-> 1, Verbose |-> FALSE]
    /\ Callbacks = GUICallbacks
    /\ geoReader \in {"nil", "open"}
    /\ servers = PoolStates
    /\ run = "call"
    /\ \E h \in Hosts :
          /\ host = [w \in Workers |-> IF w = 1 THEN h ELSE NoHost]
          /\ pc = [w \in Workers |-> IF w = 1 THEN "cli_" \o Enter(h) ELSE "off"]
    /\ Idle
    /\ GeoIdle
    /\ status = <<>>
    /\ gui = [NoGUI EXCEPT !.saveBtn = TRUE]

NextSave ==
    \/ Accumulate
    \/ onSave
    \/ ScanTLS(1)

SpecSave == InitSave /\ [][NextSave]_vars

\* A session of any caller: NewScanner and a run of one worker with any
\* callback set, nil included, verbose on or off, never stopped.
InitSinks ==
    /\ Config \in [Thread : {1}, Verbose : BOOLEAN]
    /\ Callbacks \in CallbackSets
    /\ geoReader = "nil"
    /\ servers = PoolStates
    /\ run = "new"
    /\ pc = [w \in Workers |-> "off"]
    /\ host = [w \in Workers |-> NoHost]
    /\ Idle
    /\ fs \in LocalFiles
    /\ remote \in {r \in SessionRemotes : r.up}
    /\ handles = [h \in HandleIds |-> NoHandle]
    /\ mu = 0
    /\ gp = [p \in GeoProcs |-> NoCall]
    /\ GuiIdle

NextSinks ==
    \/ NewScanner
    \/ GoRunScan
    \/ StartWorkers
    \/ (run \in {"start", "wait"} /\ (Produce \/ CloseStream))
    \/ \E w \in Workers : Worker(w)
    \/ Wait

SpecSinks == InitSinks /\ [][NextSinks]_vars

\* The GUI from its start: requests are made and accepted, each run opens
\* its scanner, scans the stream of its source with one worker and reports,
\* and the user may stop it.
InitGUI ==
    /\ Config = [Thread |-> 1, Verbose |-> FALSE]
    /\ Callbacks = GUICallbacks
    /\ geoReader = "nil"
    /\ servers = PoolStates
    /\ run = "gui"
    /\ pc = [w \in Workers |-> "off"]
    /\ host = [w \in Workers |-> NoHost]
    /\ Idle
    /\ GeoIdle
    /\ status = <<>>
    /\ \E s \in {"IP/CIDR/Domain", "URL"} :
          gui = [NoGUI EXCEPT !.source = s, !.inputText = <<"a">>, !.threadText = <<"1">>]

NextGUI ==
    \/ onStart
    \/ GoInit
    \/ NewScanner
    \/ GoRunScan
    \/ RunScanNoStream
    \/ StartWorkers
    \/ (run \in {"start", "wait"} /\ (Produce \/ CloseStream))
    \/ \E w \in Workers : Worker(w)
    \/ Wait
    \/ onStop
    \/ ApplyUI

SpecGUI == InitGUI /\ [][NextGUI]_vars

------------------------------------------------------------------------------
(* Properties of one probe *)

\* The probe of worker w completed its TLS handshake.
Handshaked(w) == state[w].Version # 0

\* The probe of worker w returned from ScanTLSWithCallbacks.
Returned(w) == pc[w] = "ret"

\* C1: a result built by ScanTLSWithCallbacks, and so every result it emits,
\* has Feasible true exactly when the negotiated version is TLS 1.3, the
\* negotiated protocol is "h2", and the certificate domain and issuer are both
\* non-empty; the geo code, verbose and the host kind play no part.
C1_Classification ==
    \A w \in Workers :
        (pc[w] \in {"onresult", "onlog"} \/ emitted[w].res > 0) =>
            /\ result[w].built
            /\ result[w].Feasible <=>
                  /\ state[w].Version = VersionTLS13
                  /\ state[w].NegotiatedProtocol = "h2"
                  /\ result[w].Domain # ""
                  /\ result[w].Issuer # ""

\* A feasible result was emitted with verbose off and no geo code.
C1_Witness ==
    /\ emitted[1].res = 1
    /\ result[1].Feasible
    /\ result[1].GeoCode = "N/A"
    /\ ~Config.Verbose

\* C3 as stated: a returned probe whose handshake succeeded has called the
\* installed result sink exactly once.
C3_Original ==
    \A w \in Workers :
        (Returned(w) /\ HasOnResult /\ Handshaked(w)) => emitted[w].res = 1

\* C3: a probe whose handshake succeeded with at least one peer certificate
\* has called the installed result sink exactly once when it returns, and no
\* probe ever calls it twice.
C3_OneResultPerCertifiedHandshake ==
    \A w \in Workers :
        /\ emitted[w].res <= 1
        /\ (Returned(w) /\ HasOnResult /\ Handshaked(w)
                /\ Len(state[w].PeerCertificates) > 0) => emitted[w].res = 1

\* An infeasible server with a certificate got its one result.
C3_Witness ==
    /\ Returned(1)
    /\ HasOnResult
    /\ Handshaked(1)
    /\ Len(state[1].PeerCertificates) > 0
    /\ ~result[1].Feasible
    /\ emitted[1].res = 1

\* C4: with both sinks installed, a returned probe that was classified
\* feasible has called the result sink once, with Feasible true, and the log
\* sink once, at level info, whatever verbose is.
C4_FeasibleResultAndInfo ==
    \A w \in Workers :
        (Returned(w) /\ result[w].built /\ result[w].Feasible
                /\ HasOnResult /\ HasOnLog) =>
            /\ emitted[w].res = 1
            /\ emitted[w].info = 1
            /\ emitted[w].debug = 0
            /\ emitted[w].error = 0

\* A feasible probe returned with verbose off, result and info log delivered.
C4_Witness ==
    /\ Returned(1)
    /\ result[1].Feasible
    /\ ~Config.Verbose
    /\ emitted[1].res = 1
    /\ emitted[1].info = 1

\* C5: with both sinks installed, a returned probe that had a certificate and
\* was classified infeasible has called the result sink once, with Feasible
\* false, and the log sink at level debug once if verbose is on and not at all
\* if it is off.
C5_InfeasibleResultDebugIffVerbose ==
    \A w \in Workers :
        (Returned(w) /\ result[w].built /\ ~result[w].Feasible
                /\ HasOnResult /\ HasOnLog) =>
            /\ emitted[w].res = 1
            /\ emitted[w].info = 0
            /\ emitted[w].error = 0
            /\ emitted[w].debug = IF Config.Verbose THEN 1 ELSE 0

\* An infeasible probe returned with verbose off: a result and no log.
C5_Witness ==
    /\ Returned(1)
    /\ result[1].built
    /\ ~result[1].Feasible
    /\ ~Config.Verbose
    /\ HasOnLog
    /\ emitted[1].res = 1
    /\ emitted[1].debug = 0

\* C6: with verbose off, a probe that returned without a result (resolution,
\* dial or handshake failure, no certificate) has called no sink.
C6_SkippedHostSilent ==
    \A w \in Workers :
        (Returned(w) /\ ~Config.Verbose
                /\ ret[w] \in {"resolve", "dial", "handshake", "certs"}) =>
            emitted[w] = NoEvents

\* C8: in both entry points a handshake that leaves no peer certificate ends
\* in a normal return without a result or a CSV line, nothing logged above
\* debug level, and never in a panic.
C8_NoCertificateIsNoError ==
    \A w \in Workers :
        /\ pc[w] # "panic"
        /\ (pc[w] \in {"ret", "cli_ret"} /\ Handshaked(w)
                /\ Len(state[w].PeerCertificates) = 0) =>
            /\ emitted[w].res = 0
            /\ emitted[w].csv = 0
            /\ emitted[w].info = 0
            /\ emitted[w].error = 0

------------------------------------------------------------------------------
(* Properties of a run *)

\* The return statements of a probe that failed before it had a handshake.
FailureReturns == {"resolve", "dial", "deadline", "handshake"}

\* C2: a probe that failed at resolution, dial, deadline setup or handshake
\* has called the result sink not once, and at every point of the run the
\* result sink was called at most as often as a handshake completed.
C2_NoFalseResults ==
    /\ nResults <= nHandshakes
    /\ \A w \in Workers :
          (ret[w] \in FailureReturns \/ ~Handshaked(w)) => emitted[w].res = 0

\* A result was delivered and a later probe failed without one.
C2_Witness ==
    /\ nResults = 1
    /\ nHandshakes = 1
    /\ hostChan.sent = 2
    /\ \E w \in Workers : Returned(w) /\ ret[w] = "handshake"

\* C7: in a run of the GUI, a probe that failed at resolution, dial or
\* handshake has returned with no result event, a dial failure with exactly
\* one debug log event if verbose is on and no log event if it is off; the
\* step that fails touches no other worker, the stream, the context or the
\* run, and the worker's next step takes it back to the range over hostChan.
C7_FailureIsNoFault ==
    /\ [](\A w \in Workers :
            /\ pc[w] # "panic"
            /\ (Returned(w) /\ ret[w] \in {"resolve", "dial", "handshake"}) =>
                  /\ emitted[w].res = 0
                  /\ emitted[w].info = 0
                  /\ emitted[w].error = 0
                  /\ ret[w] = "dial" =>
                        emitted[w].debug = IF Config.Verbose THEN 1 ELSE 0)
    /\ [][\A w \in Workers :
            /\ (pc[w] \in ProbePcs /\ pc'[w] = "ret") =>
                  /\ \A v \in Workers \ {w} : pc'[v] = pc[v] /\ host'[v] = host[v]
                  /\ hostChan' = hostChan
                  /\ cancelled' = cancelled
                  /\ run' = run
            /\ (pc[w] = "ret" /\ pc'[w] # "ret") => pc'[w] = "range"]_vars

\* A single worker whose first probe ended without a handshake went on to
\* the second host, failed to dial it, and logged that once.
C7_Witness ==
    /\ Config.Thread = 1
    /\ Config.Verbose
    /\ hostChan.sent = 2
    /\ hostChan.offer = <<>>
    /\ nHandshakes = 0
    /\ Returned(1)
    /\ ret[1] = "dial"
    /\ emitted[1].debug = 1

\* C9: once the context is cancelled it stays cancelled, and no worker that
\* is not already inside a probe enters one (a probe begins when the select
\* of the worker takes its default branch); steps of probes in flight go on.
C9_NoProbeAfterStop ==
    [][cancelled =>
          /\ cancelled'
          /\ \A w \in Workers : pc'[w] \in ProbePcs => pc[w] \in ProbePcs]_vars

\* After Stop a worker that held a host left without probing it, while the
\* probe of another worker, in flight at the Stop, ran to its end.
C9_Witness ==
    /\ cancelled
    /\ \E w \in Workers : pc[w] = "exit" /\ host[w] # NoHost
    /\ \E v \in Workers : Returned(v) /\ ret[v] = "end"

\* C10: once the context is cancelled during a run, every worker eventually
\* exits and the run eventually reports completion, whatever the address
\* stream does.
C10_StopEndsRun ==
    (cancelled /\ run = "wait")
        ~> (run = "done" /\ \A w \in Workers : pc[w] \in {"off", "exit"})

\* The workers runScan has started.
Started == {w \in Workers : pc[w] # "off"}

\* The workers that hold a host pulled from the stream and not yet finished.
InFlight == {w \in Workers : pc[w] \in ProbePcs \cup {"select"}}

\* C11: a run has started exactly Config.Thread workers, and the number of
\* hosts pulled from the stream and not yet finished never exceeds
\* Config.Thread, however many hosts the stream has sent.
C11_ExactlyThreadWorkers ==
    /\ run # "start" => Cardinality(Started) = Config.Thread
    /\ Cardinality(InFlight) <= Config.Thread
    /\ hostChan.sent - Len(hostChan.offer) >= Cardinality(InFlight)

\* A single-thread run on a machine that could run more: the stream has
\* sent its second host and one probe is in flight.
C11_Witness ==
    /\ Config.Thread = 1
    /\ hostChan.sent = 2
    /\ Cardinality(InFlight) = 1
    /\ Cardinality(Started) = 1


------------------------------------------------------------------------------
(* Properties of the GeoIP resolver *)

\* The lookups that have gone through the reader.
Answered == {p \in GeoProcs : gp[p].op = "GetGeo" /\ gp[p].pc = "done" /\ gp[p].used # "nil"}

\* C12: a lookup, whether a refresh is in progress or has ended with success
\* or with an error, goes through an open reader (the old one or the new
\* one), never through a closed one.
C12_LookupOnOpenReader == \A p \in Answered : ~gp[p].usedClosed

\* The lookups about to read o.geoReader in the nil test, outside the lock.
ReadingUnlocked == {p \in GeoProcs : gp[p].op = "GetGeo" /\ gp[p].pc = "check"}

\* The refreshes inside their critical section, about to close the reader or
\* to assign the new one.
Replacing == {p \in GeoProcs : gp[p].op = "CheckAndUpdate" /\ gp[p].pc \in {"close", "reopen"}}

\* C13: every read of the reader handle by a lookup and every write of it by
\* a refresh is made under the resolver's mutex, so in no state a lookup reads
\* the handle while a refresh is closing or writing it.
C13_HandleAccessUnderMutex == ReadingUnlocked = {} \/ Replacing = {}

\* The lookups that have returned.
Looked == {p \in GeoProcs : gp[p].op = "GetGeo" /\ gp[p].pc = "done"}

\* C14: a lookup returns "N/A" when the resolver has no reader, when the read
\* fails and when the database has no entry for the address, and the country
\* code of the address in every other case.
C14_SentinelOrCode ==
    \A p \in Looked :
        IF gp[p].used = "nil" \/ gp[p].country.err \/ ~gp[p].country.found
        THEN gp[p].code = "N/A"
        ELSE gp[p].code = gp[p].country.IsoCode

\* The calls of NewGeo that have returned.
Opened == {p \in GeoProcs : gp[p].op = "NewGeo" /\ gp[p].pc = "done"}

\* The reader of a resolver reads the file the final path names, and that
\* file is the local database the call found.
ReadsLocalCopy(p) ==
    /\ gp[p].reader # "nil"
    /\ ~handles[gp[p].reader].closed
    /\ handles[gp[p].reader].inode = fs.final
    /\ FinalFile.content = LocalImage

\* C15: NewGeo always returns a resolver, whatever the staleness check and
\* the download did: it is never stuck; when the download was not made or
\* failed and a local database exists, the resolver reads that local copy;
\* when none exists the resolver is disabled and every lookup answers "N/A".
C15_OpenNeverFatal ==
    /\ \A p \in GeoProcs : gp[p].op = "NewGeo" /\ gp[p].pc # "done" => ENABLED NewGeo(p)
    /\ \A p \in Opened :
          gp[p].dl # "ok" =>
              IF gp[p].hadLocal
              THEN ReadsLocalCopy(p)
              ELSE /\ gp[p].reader = "nil"
                   /\ \A ip \in IPs : GetGeo(gp[p].reader, ip) = {"N/A"}

\* NewGeo returned a resolver on the local copy after its download failed.
C15_Witness ==
    /\ 1 \in Opened
    /\ gp[1].hadLocal
    /\ gp[1].dl = "failed"
    /\ ReadsLocalCopy(1)

DownloadFailed == {p \in GeoProcs : gp[p].dl = "failed"}

\* C17: whenever downloadCountryDB returns an error (request, status, temp
\* file creation, write, read or rename), the final database path names
\* exactly the content it named before the call, or nothing if it named
\* nothing.
C17_FailedDownloadKeepsFile == \A p \in DownloadFailed : FinalFile = gp[p].before

\* A download failed in its copy loop after it had written a chunk, and the
\* local database is still the old one.
C17_Witness ==
    /\ 1 \in DownloadFailed
    /\ gp[1].n >= 1
    /\ gp[1].before.exists
    /\ FinalFile.content = LocalImage

\* The readers that are open.
OpenReaders == {h \in HandleIds : handles[h].made /\ ~handles[h].closed}

\* C18: under every interleaving of opens, refreshes and lookups, the final
\* database path names nothing or a complete image, and no open reader reads
\* a file that is not a complete image.
C18_OnlyCompleteImages ==
    /\ ~FinalFile.exists \/ Complete(FinalFile)
    /\ \A h \in OpenReaders : fs.inodes[handles[h].inode] \in Images

------------------------------------------------------------------------------
(* Properties of the GUI *)

\* The value a start request got for a numeric field is what the claim
\* allows for the text the user had typed: the default for an empty field,
\* else the number the text is, which lies in [1, max] (max = 0: no maximum).
Meets(raw, value, default, max) ==
    LET text == TrimSpace(raw) IN
    IF text = <<>> THEN value = default
    ELSE /\ IsNumber(text)
         /\ value = Atoi(text)
         /\ value >= 1
         /\ max > 0 => value <= max

\* C19: a start request whose port is not an integer in [1,65535], whose
\* thread count or timeout is not an integer >= 1, or whose source is empty
\* is rejected before a scanner is constructed; a request is accepted only
\* with every field either empty and defaulted (443, 2, 10) or a valid number
\* taken as typed.
C19_InvalidIsRejected ==
    /\ gui.phase = "rejected" => gui.config = NoGUI.config /\ gui.error # ""
    /\ gui.phase = "starting" =>
          /\ sanitizeInput(gui.request[1]) # <<>>
          /\ Meets(gui.request[2], gui.config.Port, DefaultPort, MaxPort)
          /\ Meets(gui.request[3], gui.config.Thread, DefaultThreads, 0)
          /\ Meets(gui.request[4], gui.config.Timeout, DefaultTimeout, 0)

------------------------------------------------------------------------------
(* Properties of the start of a session *)

\* Some probe of the session has started.
ProbeStarted == nHandshakes > 0 \/ \E w \in Workers : pc[w] \in ProbePcs

\* C20: NewScanner with a status sink reports "checking" first, then exactly
\* one final event, both before it returns; the final event is "ready" if
\* and only if the resolver holds an open reader, "unavailable" otherwise;
\* and no probe starts before the final event.
C20_StatusBeforeProbes ==
    /\ Len(status) <= 2
    /\ Len(status) >= 1 => status[1] = "Checking GeoIP database..."
    /\ Len(status) = 2 =>
          /\ status[2] \in {"GeoIP ready", "GeoIP unavailable"}
          /\ status[2] = "GeoIP ready" <=> geoReader \in OpenReaders
    /\ run = "new" <=> status = <<>>
    /\ run = "geo" <=> Len(status) = 1
    /\ ProbeStarted => Len(status) = 2

\* A probe runs in a session that reported "checking", then "ready".
C20_Witness ==
    /\ status = <<"Checking GeoIP database...", "GeoIP ready">>
    /\ gp[1].dl = "ok"
    /\ \E w \in Workers : pc[w] \in ProbePcs

------------------------------------------------------------------------------
(* Properties of the GUI's runs *)

\* The completion reports handed to the UI thread and not yet shown.
PendingReports == SelectSeq(gui.queue, LAMBDA u : u.do = "completed")

\* The counts of all completion reports made so far, in order.
Reported == gui.reports \o [i \in 1..Len(PendingReports) |-> PendingReports[i].count]

\* The runScan of the latest accepted request has returned.
RunOver == gui.runs > 0 /\ run = "done" /\ gui.phase # "starting"

\* The accepted requests whose runScan has returned.
RunsOver == IF RunOver THEN gui.runs ELSE IF gui.runs = 0 THEN 0 ELSE gui.runs - 1

\* C21: every run that is over, cancelled or not, has reported completion
\* exactly once, and no other has; a run reports only when all its workers
\* have exited, and the count it reports is the number of result events
\* delivered in that run.
C21_CompletionReportedOnce ==
    /\ Len(Reported) = RunsOver
    /\ RunOver =>
          /\ \A w \in Workers : pc[w] \in {"off", "exit"}
          /\ Reported[Len(Reported)] = nResults

\* Two runs have reported: the first found one result, the second was
\* stopped after its first result.
C21_Witness ==
    /\ gui.reports = <<1, 1>>
    /\ gui.stopped
    /\ cancelled
    /\ hostChan.sent = 2

------------------------------------------------------------------------------
(* Properties of the sinks *)

\* The named sink is in the callback set the Scanner was given.
Installed(sink) == ~Callbacks.nil /\ Callbacks[sink]

\* The log events a probe owes an installed log sink, by how far it got.
LogOwed(w) ==
    IF ~Returned(w) THEN NoEvents
    ELSE IF ret[w] = "resolve" THEN Log(NoEvents, "debug")
    ELSE IF ret[w] \in {"dial", "handshake", "certs"}
         THEN IF Config.Verbose THEN Log(NoEvents, "debug") ELSE NoEvents
    ELSE IF ret[w] = "deadline" THEN NoEvents
    ELSE IF result[w].Feasible THEN Log(NoEvents, "info")
    ELSE IF Config.Verbose THEN Log(NoEvents, "debug")
    ELSE NoEvents

\* The result events a probe owes an installed result sink.
ResultsOwed(w) == IF result[w].built /\ pc[w] \in {"onlog", "ret"} THEN 1 ELSE 0

\* The status events NewScanner owes an installed status sink.
StatusOwed ==
    IF run = "new" THEN <<>>
    ELSE IF run = "geo" THEN <<"Checking GeoIP database...">>
    ELSE <<"Checking GeoIP database...",
           IF geoReader # "nil" THEN "GeoIP ready" ELSE "GeoIP unavailable">>

\* C22: with any subset of the sinks installed, a nil callback set included,
\* NewScanner and every probe run without a panic, a sink that is not
\* installed is never called, and what an installed sink is sent depends on
\* the session and the probe alone, not on which other sinks are installed.
C22_NoSinkRequired ==
    /\ status = IF Installed("OnGeoStatus") THEN StatusOwed ELSE <<>>
    /\ \A w \in Workers :
          /\ pc[w] # "panic"
          /\ emitted[w].res = IF Installed("OnResult") THEN ResultsOwed(w) ELSE 0
          /\ [emitted[w] EXCEPT !.res = 0] = IF Installed("OnLog") THEN LogOwed(w) ELSE NoEvents

\* A session with the log sink alone: the resolver came up and a feasible
\* probe returned, logged at info, with no result and no status delivered.
C22_Witness ==
    /\ ~Callbacks.nil
    /\ Callbacks.OnLog
    /\ ~Callbacks.OnResult
    /\ ~Callbacks.OnGeoStatus
    /\ geoReader # "nil"
    /\ Returned(1)
    /\ ret[1] = "end"
    /\ result[1].Feasible
    /\ emitted[1] = Log(NoEvents, "info")
    /\ status = <<>>

------------------------------------------------------------------------------
(* Properties of the export *)

\* The positions of the feasible results in g.results.
FeasibleAt(results) == {i \in 1..Len(results) : results[i].Feasible}

\* C23: an export writes the header IP,ORIGIN,CERT_DOMAIN,CERT_ISSUER,GEO_CODE
\* first and then, in the order of g.results, exactly one row for each
\* feasible result and none for an infeasible one, the issuer between double
\* quotes; and ScanTLS has sent its one CSV line exactly when its host was
\* classified feasible.
C23_ExportFeasibleRows ==
    /\ [][gui'.written # gui.written =>
            LET file == gui'.written
                at == FeasibleAt(gui.list)
            IN  /\ file[1] = "IP,ORIGIN,CERT_DOMAIN,CERT_ISSUER,GEO_CODE\n"
                /\ Len(file) = 1 + Cardinality(at)
                /\ \A i \in at :
                      file[1 + Cardinality({j \in at : j <= i})] =
                          Join(<<gui.list[i].IP, gui.list[i].Origin, gui.list[i].Domain,
                                 "\"" \o gui.list[i].Issuer \o "\"",
                                 gui.list[i].GeoCode>>, ",") \o "\n"]_vars
    /\ [](/\ emitted[1].csv = IF pc[1] \in {"cli_log", "cli_ret"} /\ result[1].Feasible
                              THEN 1 ELSE 0
          /\ Len(out) = emitted[1].csv)

\* Three results were saved, the infeasible one between two feasible ones:
\* the file has the header and two rows; and the probe of the command line
\* returned from an infeasible host with nothing sent.
C23_Witness ==
    /\ Len(gui.list) = 3
    /\ gui.list[1].Feasible
    /\ ~gui.list[2].Feasible
    /\ gui.list[3].Feasible
    /\ gui.list[3].Issuer = "A | B"
    /\ Len(gui.written) = 3
    /\ gui.written[3] = "1.1.1.1,example.com,example.com,\"A | B\",N/A\n"
    /\ pc[1] = "cli_ret"
    /\ result[1].built
    /\ ~result[1].Feasible
    /\ out = <<>>

------------------------------------------------------------------------------
(* Properties of the pool *)

\* The workers that hold a host they have not begun to probe.
AtSelect == {w \in Workers : pc[w] = "select"}

\* C24: in a run that is never cancelled, every host the stream has handed
\* over was received by exactly one worker and probed exactly once by it (the
\* probes begun are the hosts received less those whose worker is still at
\* its select), a host on offer is neither dropped nor replaced, and under
\* fair scheduling the run completes with as many probes as hosts sent.
C24_EachHostProbedOnce ==
    /\ [](/\ ~cancelled
          /\ nProbes = hostChan.sent - Len(hostChan.offer) - Cardinality(AtSelect)
          /\ \A w \in Workers : pc[w] \in ProbePcs \cup {"select", "ret"} => host[w] # NoHost
          /\ run = "done" =>
                /\ hostChan.closed
                /\ nProbes = hostChan.sent
                /\ \A w \in Workers : pc[w] \in {"off", "exit"})
    /\ [][/\ hostChan.offer # <<>> =>
                \/ hostChan'.offer = hostChan.offer
                \/ /\ hostChan'.offer = <<>>
                   /\ \E w \in Workers :
                         /\ pc[w] = "range"
                         /\ pc'[w] = "select"
                         /\ host'[w] = hostChan.offer[1]
                         /\ \A v \in Workers \ {w} : pc'[v] = pc[v] /\ host'[v] = host[v]
          /\ nProbes' # nProbes =>
                /\ nProbes' = nProbes + 1
                /\ \E w \in Workers :
                      /\ pc[w] = "select"
                      /\ pc'[w] = Enter(host[w])
                      /\ \A v \in Workers \ {w} : pc'[v] = pc[v]
          /\ \A w \in Workers :
                (pc'[w] \in ProbePcs /\ pc[w] \notin ProbePcs) => pc[w] = "select"]_vars
    /\ <>(run = "done")

\* Two workers shared a stream of two hosts, one probe each went wrong at
\* the dial, and the run completed with two probes made.
C24_Witness ==
    /\ Config.Thread = 2
    /\ run = "done"
    /\ hostChan.sent = 2
    /\ nProbes = 2
    /\ nHandshakes = 1
    /\ ~cancelled

------------------------------------------------------------------------------
(* Properties of the staleness check *)

\* The calls of NewGeo whose needsUpdate has answered.
Decided == {p \in GeoProcs : gp[p].op = "NewGeo" /\ gp[p].pc \notin {"off", "stat", "head"}}

\* C25: needsUpdate answers true exactly when the local file is absent, or
\* it was examined and the HEAD request got status 200 with a positive
\* content length different from the local size (the content plays no part);
\* every other answer is false; and NewGeo calls downloadCountryDB exactly
\* when the answer was true.
C25_StaleBySizeOnly ==
    /\ \A st \in Stats, resp \in Responses :
          needsUpdate(st, resp).needUpdate <=>
              \/ st.notExist
              \/ /\ ~st.err
                 /\ ~resp.err
                 /\ resp.status = 200
                 /\ resp.length > 0
                 /\ resp.length # st.size
    /\ \A p \in Decided :
          /\ gp[p].needUpdate <=> (gp[p].pc = "get" \/ gp[p].dl # "")
          /\ ~gp[p].hadLocal => gp[p].needUpdate
          /\ (gp[p].hadLocal /\ gp[p].needUpdate) =>
                /\ remote.up
                /\ remote.status = 200
                /\ remote.length > 0
                /\ remote.length # gp[p].localSize

\* NewGeo found a local database of one byte, the remote announced two, and
\* the download was made; the resolver is open.
C25_Witness ==
    /\ 1 \in Opened
    /\ gp[1].hadLocal
    /\ gp[1].localSize = 1
    /\ remote.length = 2
    /\ gp[1].needUpdate
    /\ gp[1].dl = "ok"
    /\ gp[1].reader # "nil"

\* The log sink calls a probe has made.
Logged(ev) == ev.info + ev.debug + ev.error

\* The worker is at a sink call that has not returned.
InSink(w) == pc[w] \in {"onresult", "onlog"}

\* C26: the result sink is called before the log sink of the same host, a
\* worker receives its next host only from its range loop, which it reaches
\* only when the probe has returned with every sink call made, and while a
\* worker stays in a sink call it can take no host but every other worker at
\* its range loop still can.
C26_SynchronousDelivery ==
    /\ [](\A w \in Workers :
            InSink(w) =>
                /\ ~ENABLED Range(w)
                /\ ~ENABLED Select(w)
                /\ \A v \in Workers \ {w} :
                      (pc[v] = "range" /\ hostChan.offer # <<>>) => ENABLED Range(v))
    /\ [][\A w \in Workers :
            /\ emitted'[w].res > emitted[w].res =>
                  pc[w] = "onresult" /\ Logged(emitted[w]) = 0
            /\ (Logged(emitted'[w]) > Logged(emitted[w]) /\ result[w].built) =>
                  pc[w] = "onlog" /\ emitted[w].res = 1
            /\ (host'[w] # host[w] /\ pc'[w] = "select") => pc[w] = "range"
            /\ (pc'[w] = "range" /\ pc[w] # "range") =>
                  /\ pc[w] \in {"off", "ret"}
                  /\ pc[w] = "ret" =>
                        /\ emitted[w].res = ResultsOwed(w)
                        /\ [emitted[w] EXCEPT !.res = 0] = LogOwed(w)]_vars

\* One worker is at its result sink, which has not returned, while the other
\* took the next host and probed it to its end.
C26_Witness ==
    /\ pc[1] = "onresult"
    /\ emitted[1] = NoEvents
    /\ hostChan.sent = 2
    /\ Returned(2)
    /\ ret[2] = "end"
    /\ emitted[2].res = 1
    /\ emitted[2].info = 1

------------------------------------------------------------------------------
(* Properties of the connection of a probe *)

\* How far into its probe a worker is, in either entry point.
Rank(p) ==
    CASE p \in {"resolve", "cli_resolve"} -> 1
      [] p \in {"dial", "cli_dial"} -> 2
      [] p \in {"deadline", "cli_deadline"} -> 3
      [] p \in {"handshake", "cli_handshake"} -> 4
      [] p \in {"certs", "cli_classify"} -> 5
      [] p \in {"onresult", "cli_out"} -> 6
      [] p \in {"onlog", "cli_log"} -> 7
      [] p \in {"ret", "cli_ret", "panic"} -> 8
      [] OTHER -> 0

\* C27: one invocation of a probe only moves forward, so it resolves, dials
\* and shakes hands at most once each; it opens a connection at most once,
\* at its dial, and never reopens one; and when it has ended after a
\* successful dial (deadline error, handshake failure, missing certificate,
\* result emitted) the connection is closed.
C27_OneConnectionNoRetry ==
    /\ [](\A w \in Workers :
            /\ Rank(pc[w]) = 8 => conn[w] # "open"
            /\ (Rank(pc[w]) = 8 /\ ret[w] # "resolve" /\ ret[w] # "dial") => conn[w] = "closed"
            /\ Rank(pc[w]) \in 1..2 => conn[w] = "none"
            /\ nHandshakes <= 1)
    /\ [][\A w \in Workers :
            /\ pc'[w] # pc[w] => Rank(pc'[w]) > Rank(pc[w])
            /\ conn'[w] # conn[w] =>
                  \/ conn[w] = "none" /\ conn'[w] = "open" /\ Rank(pc[w]) = 2
                  \/ conn[w] = "open" /\ conn'[w] = "closed" /\ Rank(pc'[w]) = 8]_vars

\* A probe whose handshake failed has returned with its connection closed.
C27_Witness ==
    /\ Returned(1)
    /\ ret[1] = "handshake"
    /\ nHandshakes = 0
    /\ conn[1] = "closed"

------------------------------------------------------------------------------
(* Properties of the GUI and its runs *)

\* runScan of the scanner made last is running or has returned.
Scanning == run \in {"start", "wait", "done"} /\ gui.made > 0

\* C28: every NewScanner returns a context that is not cancelled, whatever
\* was stopped before; the context of a run is cancelled only by a Stop
\* issued on that run's scanner; and a run on which no Stop was issued skips
\* no host and ends only when its stream is closed, though an earlier run
\* was stopped, during its scan or after it.
C28_FreshTokenPerRun ==
    /\ run = "made" => ~cancelled
    /\ Scanning =>
          /\ cancelled <=> gui.made \in gui.stops
          /\ gui.made \notin gui.stops =>
                /\ nProbes = hostChan.sent - Len(hostChan.offer) - Cardinality(AtSelect)
                /\ (run = "done" /\ gui.source # "URL") =>
                      hostChan.closed /\ nProbes = hostChan.sent

\* The first run was stopped; the second, never stopped, probed both hosts
\* of its stream and completed.
C28_Witness ==
    /\ gui.made = 2
    /\ gui.stops = {1}
    /\ run = "done"
    /\ ~cancelled
    /\ hostChan.sent = 2
    /\ nProbes = 2

\* A start request has been accepted and its run has not reported completion
\* to the UI thread.
RunActive == gui.runs > Len(gui.reports)

\* C29: a start request is accepted only when the Start button is enabled
\* and no scan is flagged; from the acceptance of a request, through the
\* making of its scanner and its scan, until the UI thread has shown its
\* completion, the Start button stays disabled, so that no second run is
\* begun and at most one run's workers exist; the Stop button is enabled only
\* while the scan is flagged as running, between the start of runScan and the
\* completion report.
C29_OneRunAtATime ==
    /\ gui.runs - Len(gui.reports) \in {0, 1}
    /\ RunActive <=> ~gui.startBtn
    /\ RunActive => ~ENABLED onStart
    /\ ~RunActive =>
          /\ run \in {"gui", "done"}
          /\ \A w \in Workers : pc[w] \in {"off", "exit"}
          /\ gui.queue = <<>>
    /\ gui.isScanning => RunActive
    /\ gui.stopBtn <=> gui.isScanning
    /\ gui.stopBtn => run \in {"start", "wait", "done"}

\* The second run is scanning: its worker is inside a probe, Stop is
\* enabled and Start is not.
C29_Witness ==
    /\ gui.runs = 2
    /\ gui.reports = <<1>>
    /\ run = "wait"
    /\ pc[1] \in ProbePcs
    /\ gui.isScanning
    /\ gui.stopBtn
    /\ ~gui.startBtn

\* No call of the log sink is in progress and the UI thread has run every
\* update handed to it.
LogSettled ==
    /\ gui.queue = <<>>
    /\ \A w \in Workers : gui.logCall[w] = NoLogCall

\* The log line of the m-th call of the sink is in the log text.
InLog(m) == \E i \in 1..Len(gui.logText) : gui.logText[i] = m

\* C30: once every pending update of the UI is applied, every message that
\* was passed to the log sink is in the log text, unless the text is at its
\* limit and lines were cut off.
C30_NoLogLineLost ==
    LogSettled =>
        \/ \A m \in 1..gui.nLogs : InLog(m)
        \/ Len(gui.logText) = LogLimit

------------------------------------------------------------------------------
(* Properties of the refresh *)

\* The refreshes that returned an error, or returned with nothing to update.
Unrefreshed ==
    {p \in GeoProcs : /\ gp[p].op = "CheckAndUpdate"
                      /\ gp[p].pc = "done"
                      /\ gp[p].err # "" \/ ~gp[p].needUpdate}

\* C31: when CheckAndUpdate has returned an error (from the staleness check,
\* the download or the reopening) or had nothing to update, the resolver
\* names the reader it named before the call, not one the call made, and
\* that reader is still open, so a lookup after the call goes through an
\* open reader as before.
C31_FailedRefreshKeepsReader ==
    \A p \in Unrefreshed :
        /\ geoReader # HandleOf(p)
        /\ geoReader # "nil" => ~handles[geoReader].closed
        /\ \A q \in Answered : ~gp[q].usedClosed

------------------------------------------------------------------------------
(* Properties of the two entry points together *)

\* Both calls have returned from the same outcome: the same address, the
\* same connection state with a peer certificate, the same answer of the
\* country lookup.
SameOutcome ==
    /\ pc[1] = "ret" /\ pc[2] = "cli_ret"
    /\ result[1].built /\ result[2].built
    /\ host[1] = host[2]
    /\ state[1] = state[2]
    /\ Len(state[1].PeerCertificates) >= 1
    /\ result[1].GeoCode = result[2].GeoCode

\* C32: for one handshake outcome with a peer certificate, ScanTLS has
\* written a CSV line exactly when ScanTLSWithCallbacks has handed its sink a
\* result with Feasible true, and the line is made of the IP, Origin, Domain,
\* Issuer and GeoCode of that result.
C32_EntryPointsAgree ==
    SameOutcome =>
        /\ emitted[2].csv = 1 <=> (emitted[1].res = 1 /\ result[1].Feasible)
        /\ emitted[2].csv = 0 <=> out = <<>>
        /\ emitted[2].csv = 1 =>
              out = <<CSVLine(result[1].IP, result[1].Origin, result[1].Domain,
                              result[1].Issuer, result[1].GeoCode)>>

\* Both entry points have returned from the same feasible outcome, the line
\* written and the result emitted.
C32_Witness ==
    /\ SameOutcome
    /\ result[1].Feasible
    /\ emitted[1].res = 1
    /\ Len(out) = 1

\* Both entry points have returned from the same outcome that is not
\* feasible: a result emitted, no line written.
C32_WitnessNotFeasible ==
    /\ SameOutcome
    /\ ~result[1].Feasible
    /\ emitted[1].res = 1
    /\ out = <<>>

====
